---- MODULE Spec2Model ----
(***************************************************************************)
(* The bbolt cache middleware of quranc (src/client.go, boltCacheMiddleware *)
(* and BoltCache) as a state machine: the store (buckets, nested buckets,   *)
(* entries), the wrapped QuranAPI, and the callers of the decorated         *)
(* operations, each call split at its store transactions:                   *)
(*   <Op>Call   options applied, cacheID derived, db.View lookup            *)
(*   Fetch      bc.next.<Op>(...)                                           *)
(*   Update     db.Update: valueEncoder, Bucket, Put                        *)
(* Byte strings ([]byte keys and values) are sequences of numbers.          *)
(***************************************************************************)
EXTENDS Integers, Sequences, FiniteSets, TLC

\* ------------------------------------------------------------ bounds

\* Decorated calls started in one behaviour, together with the writes of
\* other users of the handle.
MaxCalls == 2
\* Writes to the store made through the shared *bbolt.DB handle by code
\* other than the middleware (SpecExt only).
MaxExternal == 1
\* Concurrent callers (SpecConc only).
NumCallers == 2

Callers == 1..NumCallers

\* ------------------------------------------------------------ strings

\* strconv.Itoa: the decimal text, as bytes.
RECURSIVE digits(_)
digits(n) ==
  IF n < 10 THEN <<48 + n>> ELSE digits(n \div 10) \o <<48 + (n % 10)>>

itoa(i) == IF i < 0 THEN <<45>> \o digits(0 - i) ELSE digits(i)

\* (mutant of join: the strings put together with nothing between them)
RECURSIVE joinBare(_)
joinBare(ss) == IF Len(ss) = 0 THEN <<>> ELSE ss[1] \o joinBare(Tail(ss))

\* strings.Join(ss, ":").
RECURSIVE join(_)
join(ss) ==
  IF Len(ss) = 0 THEN <<>>
  ELSE IF Len(ss) = 1 THEN ss[1]
  ELSE ss[1] \o <<58>> \o join(Tail(ss))

\* The literal "juzzah".
juzzahKey == <<106, 117, 122, 122, 97, 104>>

\* (mutant of sortInts: the slice left as given)
keepOrder(s) == s

\* sort.Ints: ascending, duplicates kept.
RECURSIVE insertSorted(_, _)
insertSorted(x, s) ==
  IF Len(s) = 0 THEN <<x>>
  ELSE IF x <= s[1] THEN <<x>> \o s
  ELSE <<s[1]>> \o insertSorted(x, Tail(s))

RECURSIVE sortInts(_)
sortInts(s) == IF Len(s) = 0 THEN <<>> ELSE insertSorted(s[1], sortInts(Tail(s)))

\* ------------------------------------------------------------ gob

\* The length from which gob's Encoder refuses a message, scaled from 2^30
\* and more to the lists of the model.
tooBig == 20

\* gob's unsigned integer: one byte below 128, else the negated byte count
\* followed by the big-endian bytes (two bytes cover the model's values).
gobUint(n) ==
  IF n < 128 THEN <<n>> ELSE <<254, n \div 256, n % 256>>

\* gob's signed integer: the sign in bit 0, the complement for negatives.
gobInt(i) == gobUint(IF i < 0 THEN 2 * ((0 - i) - 1) + 1 ELSE 2 * i)

RECURSIVE gobInts(_)
gobInts(s) == IF Len(s) = 0 THEN <<>> ELSE gobInt(s[1]) \o gobInts(Tail(s))

gobBytes(s) == gobUint(Len(s)) \o s

gobIntSlice(s) == gobUint(Len(s)) \o gobInts(s)

\* The fields of a struct value: each field that is sent is preceded by its
\* distance from the last field sent; a field holding the zero value of its
\* type (0, "", a slice of length 0) is not sent; 0 ends the struct.
RECURSIVE gobFields(_, _)
gobFields(fs, last) ==
  IF Len(fs) = 0 THEN <<0>>
  ELSE IF fs[1].zero THEN gobFields(Tail(fs), last)
  ELSE gobUint(fs[1].num - last) \o fs[1].bytes \o gobFields(Tail(fs), fs[1].num)

gobIntField(n, i) == [num |-> n, zero |-> (i = 0), bytes |-> gobInt(i)]
gobStringField(n, s) == [num |-> n, zero |-> (Len(s) = 0), bytes |-> gobBytes(s)]
gobSliceField(n, s) == [num |-> n, zero |-> (Len(s) = 0), bytes |-> gobIntSlice(s)]
\* A struct-typed field is always sent.
gobStructField(n, b) == [num |-> n, zero |-> FALSE, bytes |-> b]

\* The type descriptors gob writes ahead of the first value of a type; the
\* same bytes for every value of that type.
gobPreamble == <<255, 129>>

gobMessage(body) == gobPreamble \o gobUint(Len(body)) \o body

\* ------------------------------------------------------------ values

\* A result of the content API. For the list operations (nil, elems) is the
\* returned slice, its elements named by number, and id is 0. For Verse, id
\* is Verse.ID and (nil, elems) its Translations. Chapter and ChapterInfo
\* have no field of slice type: id alone, (nil, elems) fixed.
\* nil tells a nil slice from an empty one, as Go does.
GoVal(i, isNil, es) == [id |-> i, nil |-> isNil, elems |-> es]

NilVal == GoVal(0, TRUE, <<>>)

ListOps ==
  {"Recitations", "Translations", "Languages", "Tafsiraat", "Chapters",
   "Verses", "Juzzah", "VerseTafsir"}
PlainOps == {"Chapter", "ChapterInfo"}
CacheableOps == ListOps \cup PlainOps \cup {"Verse"}
Ops == CacheableOps \cup {"Search"}

\* The values of an operation's result type.
Values(op) ==
  IF op \in PlainOps THEN {GoVal(i, TRUE, <<>>) : i \in 0..3}
  ELSE {GoVal(i, n, es) :
          i \in (IF op \in ListOps THEN {0} ELSE 0..2),
          n \in BOOLEAN,
          es \in {<<>>, <<1>>, <<2>>, <<3>>}} \ {GoVal(i, TRUE, es) :
          i \in 0..2, es \in {<<1>>, <<2>>, <<3>>}}

\* What each method returns beside a non-nil error: nil, Chapter{}, Verse{}.
ZeroVal(op) == NilVal

\* Element 3 of a []VerseTafsir carries a VerseKey (interface{}) whose
\* dynamic type is not registered with gob, as a JSON object decodes to.
Unregistered(op, v) ==
  /\ op = "VerseTafsir"
  /\ \E k \in 1..Len(v.elems) : v.elems[k] = 3

\* (mutant of valueEncoder: a list of length 0 written as no bytes)
valueEncoderDropsEmpty(op, v) ==
  IF Unregistered(op, v) THEN [ok |-> FALSE, bytes |-> <<>>]
  ELSE IF op \in ListOps /\ Len(v.elems) = 0 THEN [ok |-> TRUE, bytes |-> <<>>]
  ELSE [ok |-> TRUE,
        bytes |-> gobMessage(
          IF op \in ListOps THEN gobIntSlice(v.elems)
          ELSE gobFields(<<gobIntField(1, v.id), gobSliceField(2, v.elems)>>, 0))]

\* valueEncoder: gob.NewEncoder(&buf).Encode(v). A slice is sent as its
\* length and its elements, so a nil and an empty slice encode alike.
valueEncoder(op, v) ==
  IF Unregistered(op, v) THEN [ok |-> FALSE, bytes |-> <<>>]
  ELSE [ok |-> TRUE,
        bytes |-> gobMessage(
          IF op \in ListOps THEN gobIntSlice(v.elems)
          ELSE gobFields(<<gobIntField(1, v.id), gobSliceField(2, v.elems)>>, 0))]

\* What Decode can leave in a fresh `var out`: a slice of length 0 stays nil.
Decoded(op) == {v \in Values(op) : Len(v.elems) = 0 => v.nil}

\* (mutant of valueDecode: every Decode fails)
valueDecodeFails(op, b) == [ok |-> FALSE, err |-> "gob", v |-> ZeroVal(op)]

\* (mutant of valueDecode: bytes that are no encoding decode to the zero value)
valueDecodeLenient(op, b) ==
  LET S == {v \in Decoded(op) : valueEncoder(op, v).ok /\ valueEncoder(op, v).bytes = b}
  IN IF S = {}
     THEN [ok |-> Len(b) > 0, err |-> IF Len(b) > 0 THEN "nil" ELSE "EOF", v |-> ZeroVal(op)]
     ELSE [ok |-> TRUE, err |-> "nil", v |-> CHOOSE v \in S : TRUE]

\* valueDecode: gob.NewDecoder(bytes.NewBuffer(b)).Decode(&out). b is nil
\* for a key that is absent (Get returns nil): Decode, with no byte to
\* read, then fails with io.EOF, as it does for a value of no bytes; on
\* other bytes that are no encoding of the type it fails with an error of
\* its own ("gob").
valueDecode(op, b) ==
  LET S == {v \in Decoded(op) : valueEncoder(op, v).ok /\ valueEncoder(op, v).bytes = b}
  IN IF S = {}
     THEN [ok |-> FALSE, err |-> IF Len(b) = 0 THEN "EOF" ELSE "gob", v |-> ZeroVal(op)]
     ELSE [ok |-> TRUE, err |-> "nil", v |-> CHOOSE v \in S : TRUE]

\* ------------------------------------------------------------ options

\* versesReqOpt; Language and TextType as bytes.
VersesOpt(lang, rec, tt, page, limit, offset, media, trans) ==
  [Language |-> lang, Recitation |-> rec, TextType |-> tt, Page |-> page,
   Limit |-> limit, Offset |-> offset, Media |-> media, Translations |-> trans]

ZeroVersesOpt == VersesOpt(<<>>, 0, <<>>, 0, 0, 0, <<>>, <<>>)

\* The arguments of a call. reqOpts holds the ids of the LanguageID (for
\* VerseTafsir: the TafsirID) options in the order given; vopt is the
\* versesReqOpt the VersesReqOptFns build, its slices the caller's own.
Args(ro, i, vid, vo, q) ==
  [reqOpts |-> ro, id |-> i, verseID |-> vid, vopt |-> vo, query |-> q]

NoArgs == Args(<<>>, 0, 0, ZeroVersesOpt, <<>>)

\* (mutant of languageID: no option given told apart from LanguageID(0))
languageIDOrUnset(reqOpts) == IF Len(reqOpts) = 0 THEN -1 ELSE reqOpts[Len(reqOpts)]

\* `var opt reqOpt; for _, o := range reqOpts { opt = o(opt) }`: each
\* LanguageID(id) sets opt.languageID, the last one stands.
languageID(reqOpts) == IF Len(reqOpts) = 0 THEN 0 ELSE reqOpts[Len(reqOpts)]

\* The same loop over TafsirID(id): opts.Tafsir = strconv.Itoa(id), "" unset.
tafsirOf(reqOpts) == IF Len(reqOpts) = 0 THEN <<>> ELSE itoa(reqOpts[Len(reqOpts)])

\* (mutant of sortedOpt: Translations left unsorted)
sortedMediaOnly(v) == [v EXCEPT !.Media = sortInts(v.Media)]

\* versesReqOpt.key: the two sort.Ints calls. v is a copy of the struct, its
\* slices share the caller's arrays: the sort is seen through every copy.
sortedOpt(v) ==
  [v EXCEPT !.Media = sortInts(v.Media), !.Translations = sortInts(v.Translations)]

\* (mutant of versesMessage: Offset, which no request carries, left out)
versesMessageNoOffset(v, chapterID) ==
  LET s == sortedOpt(v)
      inner == gobFields(<<gobStringField(1, s.Language),
                           gobIntField(2, s.Recitation),
                           gobStringField(3, s.TextType),
                           gobIntField(4, s.Page),
                           gobIntField(5, s.Limit),
                           gobSliceField(7, s.Media),
                           gobSliceField(8, s.Translations)>>, 0)
  IN gobFields(<<gobStructField(1, inner), gobIntField(2, chapterID)>>, 0)

\* The value message Encode builds for struct{VerseReqOpts; ChapterID}.
versesMessage(v, chapterID) ==
  LET s == sortedOpt(v)
      inner == gobFields(<<gobStringField(1, s.Language),
                           gobIntField(2, s.Recitation),
                           gobStringField(3, s.TextType),
                           gobIntField(4, s.Page),
                           gobIntField(5, s.Limit),
                           gobIntField(6, s.Offset),
                           gobSliceField(7, s.Media),
                           gobSliceField(8, s.Translations)>>, 0)
  IN gobFields(<<gobStructField(1, inner), gobIntField(2, chapterID)>>, 0)

\* versesReqOpt.key: the gob encoding of struct{VerseReqOpts; ChapterID}.
versesKey(v, chapterID) == gobMessage(versesMessage(v, chapterID))

\* The err of versesReqOpt.key: Encode refuses a message of tooBig bytes or
\* more ("gob: encoder: message too big"), and nothing else of this type.
versesKeyErr(v, chapterID) == Len(versesMessage(v, chapterID)) >= tooBig

\* ------------------------------------------------------------ buckets

bucketChapters == "chapters"
bucketChapter == "chapter"
bucketChapterInfo == "chapterinfo"
bucketJuzzah == "juzzah"
bucketLanguages == "languages"
bucketRecitations == "recitations"
bucketTafsiraat == "tafsiraat"
bucketTranslations == "translations"
bucketVerse == "verse"
bucketVerseTafsir == "verse_tafsir"
bucketVerses == "verses"

\* BoltCache's `buckets` map: the nested buckets of each top-level bucket.
nestedBuckets(b) ==
  IF b = bucketChapters THEN {bucketChapter, bucketChapterInfo}
  ELSE IF b = bucketVerses THEN {bucketVerse, bucketVerseTafsir}
  ELSE {}

TopBuckets ==
  {bucketChapters, bucketJuzzah, bucketLanguages, bucketRecitations,
   bucketTafsiraat, bucketTranslations, bucketVerses}

\* A bucket by its path from the root.
AllPaths ==
  {<<b>> : b \in TopBuckets} \cup
  UNION {{<<b, n>> : n \in nestedBuckets(b)} : b \in TopBuckets}

\* (mutant of bucketOf: the methods of one family share a nested bucket)
bucketOfFamily(op) ==
  CASE op = "Recitations" -> <<bucketRecitations>>
    [] op = "Translations" -> <<bucketTranslations>>
    [] op = "Languages" -> <<bucketLanguages>>
    [] op = "Tafsiraat" -> <<bucketTafsiraat>>
    [] op = "Chapters" -> <<bucketChapters>>
    [] op \in {"Chapter", "ChapterInfo"} -> <<bucketChapters, bucketChapter>>
    [] op = "Verses" -> <<bucketVerses>>
    [] op \in {"Verse", "VerseTafsir"} -> <<bucketVerses, bucketVerse>>
    [] op = "Juzzah" -> <<bucketJuzzah>>
    [] OTHER -> <<>>

\* The bucket (and nested bucket) each method reads and writes.
bucketOf(op) ==
  CASE op = "Recitations" -> <<bucketRecitations>>
    [] op = "Translations" -> <<bucketTranslations>>
    [] op = "Languages" -> <<bucketLanguages>>
    [] op = "Tafsiraat" -> <<bucketTafsiraat>>
    [] op = "Chapters" -> <<bucketChapters>>
    [] op = "Chapter" -> <<bucketChapters, bucketChapter>>
    [] op = "ChapterInfo" -> <<bucketChapters, bucketChapterInfo>>
    [] op = "Verses" -> <<bucketVerses>>
    [] op = "Verse" -> <<bucketVerses, bucketVerse>>
    [] op = "Juzzah" -> <<bucketJuzzah>>
    [] op = "VerseTafsir" -> <<bucketVerses, bucketVerseTafsir>>
    [] OTHER -> <<>>

\* The cacheID each method derives from its arguments.
cacheIDOf(op, a) ==
  CASE op \in {"Recitations", "Translations", "Languages", "Tafsiraat", "Chapters"} ->
         itoa(languageID(a.reqOpts))
    [] op \in {"Chapter", "ChapterInfo"} ->
         join(<<itoa(languageID(a.reqOpts)), itoa(a.id)>>)
    [] op = "Verses" -> versesKey(a.vopt, a.id)
    [] op = "Verse" -> join(<<itoa(a.id), itoa(a.verseID)>>)
    [] op = "Juzzah" -> juzzahKey
    [] op = "VerseTafsir" ->
         join(<<tafsirOf(a.reqOpts), itoa(a.id), itoa(a.verseID)>>)
    [] OTHER -> <<>>

\* ------------------------------------------------------------ state

VARIABLES
  buckets,   \* the paths of the buckets and nested buckets that exist
  store,     \* store[path]: the entries of that bucket, key -> value bytes
  apiDown,   \* whether the wrapped QuranAPI, invoked now, returns an error
  pc,        \* pc[c]: where caller c stands in its decorated call
  call,      \* call[c]: the locals of caller c's current (or last) call
  prev,      \* prev[c]: call[c] as it stood when c's previous call returned
  before,    \* before[c]: the store when c's current call began
  ncalls,    \* decorated calls started
  next,      \* writes made so far by other users of the db handle
  crashed,   \* an unrecovered panic has ended the process
  probe,     \* SpecKey: the arguments and keys of a key derivation on its own
  boot,      \* the runs of BoltCache against the store
  tx,        \* the transactions open on the db: tx.w who holds the one
             \* read-write transaction, tx.r who holds a read-only one;
             \* callers by number, BoltCache as 0
  budget     \* the calls and outside events a run is made of, at most

vars ==
  <<buckets, store, apiDown, pc, call, prev, before, ncalls, next, crashed, probe, boot,
    tx, budget>>

NoTx == [w |-> {}, r |-> {}]

\* (mutant of release: the read-write transaction never ended)
releaseNever(h) == tx.w \cup {h}

\* db.Update on its way out: the commit, the rollback after an error of the
\* function, or the deferred rollback when the function panics, each of
\* which gives up the writer's lock.
release(h) == (tx.w \cup {h}) \ {h}

\* (mutant of rollback: the read-only transaction left open)
rollbackNever(h) == tx.r \cup {h}

\* db.View on its way out: the rollback of the read-only transaction, also
\* deferred for a function that panics.
rollback(h) == (tx.r \cup {h}) \ {h}

EmptyBucket == [k \in {} |-> <<>>]

\* (mutant of Get: no key is ever found)
GetNothing(path, key) == <<>>

\* Bucket.Get: the value, or nil for a key the bucket does not hold.
Get(path, key) ==
  IF key \in DOMAIN store[path] THEN store[path][key] ELSE <<>>

\* (mutant of Put: the bytes appended to those the key already holds)
PutAppend(path, key, b) ==
  LET f == store[path]
  IN [store EXCEPT ![path] =
        [k \in (DOMAIN f) \cup {key} |->
           IF k = key THEN Get(path, key) \o b ELSE f[k]]]

\* (mutant of Put: the bucket left with the written key alone)
PutDropsOthers(path, key, b) ==
  [store EXCEPT ![path] = [k \in {key} |-> b]]

\* Bucket.Put inside a committed db.Update: one value per key.
Put(path, key, b) ==
  LET f == store[path]
  IN [store EXCEPT ![path] = [k \in (DOMAIN f) \cup {key} |-> IF k = key THEN b ELSE f[k]]]

\* The wrapped API answers with an error or with one of three values.
Errors == {"e1", "e2"}
Picks == {1, 2, 3}

\* The value the wrapped API's answer `pick` stands for, per result type.
apiValue(op, pick) ==
  IF op \in PlainOps THEN GoVal(pick, TRUE, <<>>)
  ELSE IF op \in ListOps THEN
    (CASE pick = 1 -> GoVal(0, FALSE, <<>>)
       [] pick = 2 -> GoVal(0, FALSE, <<1>>)
       [] OTHER -> GoVal(0, FALSE, IF op = "VerseTafsir" THEN <<3>> ELSE <<2>>))
  ELSE
    (CASE pick = 1 -> GoVal(1, FALSE, <<>>)
       [] pick = 2 -> GoVal(1, FALSE, <<1>>)
       [] OTHER -> GoVal(2, TRUE, <<>>))

\* The locals of a call, and what it did:
\*   passed     the arguments as the caller gave them
\*   args       the arguments as the caller's reqOpts yield them now
\*   keyErr     opt.key returned an error
\*   cacheID    the key derived
\*   downAtCall whether the wrapped API was failing when the call began
\*   noBucket   tx.Bucket found no bucket in db.View
\*   reads      db.View transactions run
\*   present    whether the bucket held cacheID in db.View
\*   found      what b.Get(cacheID) returned in db.View
\*   decErr     what valueDecode returned in db.View
\*   hit        valueDecode returned nil in db.View
\*   invoked    invocations of the wrapped API
\*   upArgs     the arguments the wrapped API was invoked with
\*   apiErr     the error the wrapped API returned
\*   clientOut  the value the wrapped API returned
\*   txs        db.Update transactions run
\*   writeErr   what db.Update returned: "nil", "encode" or "put"
\*   puts       Puts committed
\*   entry      what the bucket held under cacheID when the call returned
\*   val, err   what the call returned
NoCall ==
  [op |-> "none", passed |-> NoArgs, args |-> NoArgs, keyErr |-> FALSE, cacheID |-> <<>>,
   downAtCall |-> FALSE, noBucket |-> FALSE, reads |-> 0, present |-> FALSE,
   found |-> <<>>, decErr |-> "nil",
   hit |-> FALSE, invoked |-> 0, upArgs |-> NoArgs, apiErr |-> "nil",
   clientOut |-> NilVal, txs |-> 0, writeErr |-> "nil", puts |-> 0,
   entry |-> <<>>, val |-> NilVal, err |-> "nil", via |-> 0]

\* (mutant of errorReturn: the error wrapped in a new one)
errorReturnWrapped(cur, e) ==
  [cur EXCEPT !.apiErr = e, !.val = ZeroVal(cur.op), !.err = "wrapped"]

\* (mutant of errorReturn: the error dropped)
errorReturnNil(cur, e) ==
  [cur EXCEPT !.apiErr = e, !.val = ZeroVal(cur.op), !.err = "nil"]

\* `if err != nil { return nil, err }` after bc.next.<Op>: the zero value
\* and the wrapped API's error as it is.
errorReturn(cur, e) ==
  [cur EXCEPT !.apiErr = e, !.val = ZeroVal(cur.op), !.err = e]

\* (mutant of updateReturn: the error of db.Update returned to the caller)
updateReturnErr(cur, werr) ==
  [cur EXCEPT !.txs = @ + 1, !.writeErr = werr, !.val = cur.clientOut, !.err = werr]

\* `bc.db.Update(...)` as a statement, its result dropped, and then
\* `return clientOut, nil`.
updateReturn(cur, werr) ==
  [cur EXCEPT !.txs = @ + 1, !.writeErr = werr, !.val = cur.clientOut, !.err = "nil"]

\* BoltCache against the store:
\*   step        "idle", "running" (in the loop over the map), "ok", "failed"
\*   todo        the top-level buckets the loop has still to visit
\*   runs        runs that have returned
\*   ret, err    what the last run returned: "decorator" or "nil", and err
\*   decorators  decorators returned so far
\*   plain       nested paths where the parent bucket holds a plain value
\*               under the nested bucket's name
NoBoot ==
  [step |-> "idle", todo |-> {}, runs |-> 0, ret |-> "none", err |-> "nil",
   decorators |-> 0, plain |-> {}]

\* One run has returned a decorator.
Booted == [NoBoot EXCEPT !.step = "ok", !.runs = 1, !.ret = "decorator", !.decorators = 1]

\* A key derivation on its own: a and b as passed, a1 what a holds after its
\* first derivation, ka and kb the keys of a and b, ka2 the key of a1.
NoProbe ==
  [step |-> "off", op |-> "none", a |-> NoArgs, a1 |-> NoArgs, b |-> NoArgs,
   ka |-> <<>>, ka2 |-> <<>>, kb |-> <<>>]

\* BoltCache has returned the middleware: every bucket exists, the store
\* holds no entry, no call has been made.
Init ==
  /\ buckets = AllPaths
  /\ store = [p \in AllPaths |-> EmptyBucket]
  /\ apiDown \in BOOLEAN
  /\ pc = [c \in Callers |-> "idle"]
  /\ call = [c \in Callers |-> NoCall]
  /\ prev = [c \in Callers |-> NoCall]
  /\ before = [c \in Callers |-> store]
  /\ ncalls = 0
  /\ next = 0
  /\ crashed = FALSE
  /\ probe = NoProbe
  /\ boot = Booted
  /\ tx = NoTx
  /\ budget = MaxCalls

\* ------------------------------------------------------------ arguments

LangOpts == {<<>>, <<0>>, <<1>>}
TafsirOpts == {<<>>, <<1>>}
ChapterIDs == {2}
VerseIDs == {1, 2}
IntLists == {<<>>, <<1, 2>>, <<2, 1>>}
\* A list of ids whose encoding alone is a message gob refuses.
BigList == [i \in 1..tooBig |-> IF i = 1 THEN 2 ELSE 1]
VersesOpts ==
  ({VersesOpt(<<>>, 0, <<>>, 0, 0, 0, m, t) : m \in IntLists, t \in IntLists}
     \ {VersesOpt(<<>>, 0, <<>>, 0, 0, 0, m, t) : m \in {<<1, 2>>}, t \in {<<1, 2>>, <<2, 1>>}})
  \cup {VersesOpt(<<>>, 0, <<>>, 0, 0, 0, <<>>, BigList)}
Queries == {<<113>>, <<113, 50>>}

\* The argument lists each method is called with.
ArgsOf(op) ==
  CASE op \in {"Recitations", "Translations", "Languages", "Tafsiraat", "Chapters"} ->
         {Args(ro, 0, 0, ZeroVersesOpt, <<>>) : ro \in LangOpts}
    [] op \in {"Chapter", "ChapterInfo"} ->
         {Args(ro, i, 0, ZeroVersesOpt, <<>>) : ro \in LangOpts, i \in ChapterIDs}
    [] op = "Verses" ->
         {Args(<<>>, i, 0, vo, <<>>) : i \in ChapterIDs, vo \in VersesOpts}
    [] op = "Verse" ->
         {Args(<<>>, i, v, ZeroVersesOpt, <<>>) : i \in ChapterIDs, v \in VerseIDs}
    [] op = "VerseTafsir" ->
         {Args(ro, i, v, ZeroVersesOpt, <<>>) : ro \in TafsirOpts, i \in ChapterIDs, v \in VerseIDs}
    [] op = "Search" -> {Args(<<>>, 0, 0, ZeroVersesOpt, q) : q \in Queries}
    [] OTHER -> {NoArgs}

\* ------------------------------------------------------------ a decorated call

\* (mutant of hitReturn: the zero value returned in place of the entry)
hitReturnZero(cur, v) ==
  [cur EXCEPT !.hit = TRUE, !.val = ZeroVal(cur.op), !.err = "nil"]

\* `if err == nil { return *recitations, nil }` after bc.db.View: the value
\* decoded from the entry, and no error.
hitReturn(cur, v) ==
  [cur EXCEPT !.hit = TRUE, !.val = v, !.err = "nil"]

\* reqOpt.applyQueryParams: `language` is sent for a positive id alone.
applyQueryParams(id) ==
  IF id > 0 THEN <<<<"language", itoa(id)>>>> ELSE <<>>

\* versesReqOpt.queryParams: the parameters in the order they are added;
\* Offset is not sent; media[] and translations[] follow the slices.
queryParams(v) ==
  (IF v.Language # <<>> THEN <<<<"language", v.Language>>>> ELSE <<>>)
  \o (IF v.Recitation > 0 THEN <<<<"recitation", itoa(v.Recitation)>>>> ELSE <<>>)
  \o (IF v.TextType # <<>> THEN <<<<"text_type", v.TextType>>>> ELSE <<>>)
  \o (IF v.Page > 0 THEN <<<<"page", itoa(v.Page)>>>> ELSE <<>>)
  \o (IF v.Limit > 0 THEN <<<<"limit", itoa(v.Limit)>>>> ELSE <<>>)
  \o [k \in 1..Len(v.Media) |-> <<"media[]", itoa(v.Media[k])>>]
  \o [k \in 1..Len(v.Translations) |-> <<"translations[]", itoa(v.Translations[k])>>]

\* The request a method of Client sends for arguments a: c.c.Get(endpoint),
\* the ids the endpoint is built from, and the query parameters.
request(op, a) ==
  [endpoint |-> op,
   ids |-> CASE op \in {"Chapter", "ChapterInfo", "Verses"} -> <<a.id>>
             [] op \in {"Verse", "VerseTafsir"} -> <<a.id, a.verseID>>
             [] OTHER -> <<>>,
   query |-> CASE op \in {"Recitations", "Translations", "Languages", "Tafsiraat",
                          "Chapters", "Chapter", "ChapterInfo"} ->
                    applyQueryParams(languageID(a.reqOpts))
               [] op = "Verses" -> queryParams(a.vopt)
               [] op = "VerseTafsir" ->
                    IF tafsirOf(a.reqOpts) # <<>>
                    THEN <<<<"tafsirs", tafsirOf(a.reqOpts)>>>> ELSE <<>>
               [] OTHER -> <<>>]

\* (mutant of argsAfterKey: the caller's slices left as they were passed)
argsAsPassed(op, a) == a

\* The arguments as the caller's reqOpts yield them once cacheID is derived:
\* versesReqOpt.key has sorted the caller's Media and Translations in place.
argsAfterKey(op, a) ==
  IF op = "Verses" THEN [a EXCEPT !.vopt = sortedOpt(a.vopt)] ELSE a

\* (mutant of keyFails: the err of opt.key not looked at)
keyNeverFails(op, a) == FALSE

\* `cacheID, err := opt.key(chapterID); if err != nil`: Verses alone derives
\* its key by a step that can fail.
keyFails(op, a) == op = "Verses" /\ versesKeyErr(a.vopt, a.id)

\* (mutant of dbGet: a decorator that remembers the calls it served and
\* looks in the store only after one of its own)
dbGetOwn(bc, last, path, id) ==
  IF last.via = bc THEN Get(path, id) ELSE <<>>

\* b.Get(cacheID) inside bc.db.View: decorator bc has the db it was built
\* with and the wrapped client, nothing else; the call it served last
\* (last) has left nothing in it.
dbGet(bc, last, path, id) == Get(path, id)

\* The head of every cacheable method, which is a method of the decorator
\* BoltCache returned: the options applied, cacheID derived,
\* then db.View with valueDecode(b.Get(cacheID), &out). tx.Bucket returns nil
\* for a bucket that does not exist, and Get (or Bucket) on the nil *Bucket
\* dereferences it: a panic. err == nil returns out; otherwise the call goes
\* on to the wrapped API. Verses, when opt.key fails, goes to
\* `return bc.next.Verses(...)` at once, the slices sorted all the same.
Lookup(c, op, a) ==
  \E bc \in 1..boot.decorators :
  LET path == bucketOf(op)
      id == cacheIDOf(op, a)
      base == [NoCall EXCEPT !.op = op, !.passed = a,
                             !.args = argsAfterKey(op, a), !.cacheID = id,
                             !.downAtCall = apiDown, !.reads = 1, !.via = bc]
  IN /\ ~crashed
     /\ pc[c] \in {"idle", "done"}
     /\ ncalls + next < budget
     /\ ncalls' = ncalls + 1
     /\ prev' = [prev EXCEPT ![c] = call[c]]
     /\ before' = [before EXCEPT ![c] = store]
     /\ IF keyFails(op, a)
        THEN /\ crashed' = crashed
             /\ pc' = [pc EXCEPT ![c] = "fetch"]
             /\ call' = [call EXCEPT ![c] =
                           [base EXCEPT !.keyErr = TRUE, !.cacheID = <<>>, !.reads = 0]]
        ELSE IF path \notin buckets
        THEN /\ crashed' = TRUE
             /\ pc' = [pc EXCEPT ![c] = "panic"]
             /\ call' = [call EXCEPT ![c] = [base EXCEPT !.noBucket = TRUE]]
        ELSE LET b == dbGet(bc, call[c], path, id)
                 d == valueDecode(op, b)
                 got == [base EXCEPT !.present = id \in DOMAIN store[path],
                                     !.found = b, !.decErr = d.err, !.entry = b]
             IN /\ crashed' = crashed
                /\ IF d.ok
                   THEN /\ pc' = [pc EXCEPT ![c] = "done"]
                        /\ call' = [call EXCEPT ![c] = hitReturn(got, d.v)]
                   ELSE /\ pc' = [pc EXCEPT ![c] = "fetch"]
                        /\ call' = [call EXCEPT ![c] = got]
     /\ tx' = [tx EXCEPT !.r = IF keyFails(op, a) THEN @ ELSE rollback(c)]
     /\ UNCHANGED <<buckets, store, apiDown, next, probe, boot, budget>>

RecitationsCall(c) == \E a \in ArgsOf("Recitations") : Lookup(c, "Recitations", a)
TranslationsCall(c) == \E a \in ArgsOf("Translations") : Lookup(c, "Translations", a)
LanguagesCall(c) == \E a \in ArgsOf("Languages") : Lookup(c, "Languages", a)
TafsiraatCall(c) == \E a \in ArgsOf("Tafsiraat") : Lookup(c, "Tafsiraat", a)
ChaptersCall(c) == \E a \in ArgsOf("Chapters") : Lookup(c, "Chapters", a)
ChapterCall(c) == \E a \in ArgsOf("Chapter") : Lookup(c, "Chapter", a)
ChapterInfoCall(c) == \E a \in ArgsOf("ChapterInfo") : Lookup(c, "ChapterInfo", a)
VersesCall(c) == \E a \in ArgsOf("Verses") : Lookup(c, "Verses", a)
VerseCall(c) == \E a \in ArgsOf("Verse") : Lookup(c, "Verse", a)
JuzzahCall(c) == \E a \in ArgsOf("Juzzah") : Lookup(c, "Juzzah", a)
VerseTafsirCall(c) == \E a \in ArgsOf("VerseTafsir") : Lookup(c, "VerseTafsir", a)

\* (mutant of SearchCall: Search sent through the lookup like the others)
SearchCached(c) == \E a \in ArgsOf("Search") : Lookup(c, "Search", a)

\* Search: no lookup, straight to bc.next.Search(ctx, query).
SearchCall(c) ==
  \E a \in ArgsOf("Search") :
    /\ ~crashed
    /\ boot.decorators > 0
    /\ pc[c] \in {"idle", "done"}
    /\ ncalls + next < budget
    /\ ncalls' = ncalls + 1
    /\ prev' = [prev EXCEPT ![c] = call[c]]
    /\ before' = [before EXCEPT ![c] = store]
    /\ pc' = [pc EXCEPT ![c] = "fetch"]
    /\ call' = [call EXCEPT ![c] =
                  [NoCall EXCEPT !.op = "Search", !.passed = a, !.args = a,
                                 !.downAtCall = apiDown]]
    /\ UNCHANGED <<buckets, store, apiDown, next, crashed, probe, boot, tx, budget>>

\* (mutant of Fetch: the call goes on to db.Update after an error too)
FetchThenAlwaysUpdate(c) ==
  /\ ~crashed
  /\ pc[c] = "fetch"
  /\ apiDown' \in BOOLEAN
  /\ LET cur == [call[c] EXCEPT !.invoked = @ + 1, !.upArgs = call[c].args]
     IN IF apiDown
        THEN \E e \in Errors :
               /\ pc' = [pc EXCEPT ![c] = "update"]
               /\ call' = [call EXCEPT ![c] = [cur EXCEPT !.apiErr = e]]
        ELSE \E p \in Picks :
               /\ pc' = [pc EXCEPT ![c] = "update"]
               /\ call' = [call EXCEPT ![c] = [cur EXCEPT !.clientOut = apiValue(cur.op, p)]]
  /\ UNCHANGED <<buckets, store, prev, before, ncalls, next, crashed, probe, boot, tx, budget>>

\* (mutant of Fetch: an error of the wrapped API answered by another try)
FetchRetries(c) ==
  /\ ~crashed
  /\ pc[c] = "fetch"
  /\ apiDown' \in BOOLEAN
  /\ LET cur == [call[c] EXCEPT !.invoked = IF @ < 2 THEN @ + 1 ELSE @,
                                !.upArgs = call[c].args]
     IN IF apiDown
        THEN /\ pc' = pc
             /\ call' = [call EXCEPT ![c] = cur]
        ELSE \E p \in Picks :
               LET out == apiValue(cur.op, p)
               IN IF cur.op = "Search" \/ cur.keyErr
                  THEN /\ pc' = [pc EXCEPT ![c] = "done"]
                       /\ call' = [call EXCEPT ![c] = [cur EXCEPT !.clientOut = out, !.val = out]]
                  ELSE /\ pc' = [pc EXCEPT ![c] = "update"]
                       /\ call' = [call EXCEPT ![c] = [cur EXCEPT !.clientOut = out]]
  /\ UNCHANGED <<buckets, store, prev, before, ncalls, next, crashed, probe, boot, tx, budget>>

\* clientOut, err := bc.next.<Op>(ctx, ..., reqOpts...): the wrapped API is
\* invoked with what the caller's arguments now hold and answers; its later
\* answers may differ. An error is returned with the zero value; Search,
\* and Verses without a key, return whatever they got; the others go on to
\* db.Update.
Fetch(c) ==
  /\ ~crashed
  /\ pc[c] = "fetch"
  /\ apiDown' \in BOOLEAN
  /\ LET cur == [call[c] EXCEPT !.invoked = @ + 1, !.upArgs = call[c].args]
     IN IF apiDown
        THEN \E e \in Errors :
               /\ pc' = [pc EXCEPT ![c] = "done"]
               /\ call' = [call EXCEPT ![c] = errorReturn(cur, e)]
        ELSE \E p \in Picks :
               LET out == apiValue(cur.op, p)
               IN IF cur.op = "Search" \/ cur.keyErr
                  THEN /\ pc' = [pc EXCEPT ![c] = "done"]
                       /\ call' = [call EXCEPT ![c] = [cur EXCEPT !.clientOut = out, !.val = out]]
                  ELSE /\ pc' = [pc EXCEPT ![c] = "update"]
                       /\ call' = [call EXCEPT ![c] = [cur EXCEPT !.clientOut = out]]
  /\ UNCHANGED <<buckets, store, prev, before, ncalls, next, crashed, probe, boot, tx, budget>>

\* (mutant of Update: the bucket created where it is missing)
UpdateRecreates(c) ==
  /\ ~crashed
  /\ pc[c] = "inTx"
  /\ LET cur == call[c]
         path == bucketOf(cur.op)
     IN /\ buckets' = buckets \cup {path, <<path[1]>>}
        /\ store' = Put(path, cur.cacheID, valueEncoder(cur.op, cur.clientOut).bytes)
        /\ pc' = [pc EXCEPT ![c] = "done"]
        /\ call' = [call EXCEPT ![c] = [updateReturn(cur, "nil") EXCEPT !.puts = @ + 1]]
  /\ tx' = [tx EXCEPT !.w = release(c)]
  /\ UNCHANGED <<apiDown, prev, before, ncalls, next, crashed, probe, boot, budget>>

\* bc.db.Update(...) is entered: the read-write transaction begins, which
\* waits for the one that is open, if any, to end.
UpdateBegin(c) ==
  /\ ~crashed
  /\ pc[c] = "update"
  /\ tx.w = {}
  /\ tx' = [tx EXCEPT !.w = {c}]
  /\ pc' = [pc EXCEPT ![c] = "inTx"]
  /\ UNCHANGED <<buckets, store, apiDown, call, prev, before, ncalls, next, crashed, probe, boot, budget>>

\* The function given to bc.db.Update and the end of the transaction; the
\* error of db.Update is dropped, then `return clientOut, nil`.
\* valueEncoder comes first and its error ends the transaction; then
\* tx.Bucket (nil for a missing bucket, a panic at Put or at the nested
\* Bucket); then Put and the commit, which the store may refuse (ioFail).
Update(c) ==
  /\ ~crashed
  /\ pc[c] = "inTx"
  /\ LET cur == call[c]
         path == bucketOf(cur.op)
         enc == valueEncoder(cur.op, cur.clientOut)
     IN \E ioFail \in BOOLEAN :
          IF ~enc.ok
          THEN /\ pc' = [pc EXCEPT ![c] = "done"]
               /\ call' = [call EXCEPT ![c] =
                             [updateReturn(cur, "encode") EXCEPT
                                         !.entry = IF path \in buckets
                                                   THEN Get(path, cur.cacheID) ELSE <<>>]]
               /\ UNCHANGED <<store, crashed>>
          ELSE IF path \notin buckets
          THEN /\ pc' = [pc EXCEPT ![c] = "panic"]
               /\ crashed' = TRUE
               /\ call' = [call EXCEPT ![c] = [cur EXCEPT !.txs = @ + 1]]
               /\ UNCHANGED store
          ELSE IF ioFail
          THEN /\ pc' = [pc EXCEPT ![c] = "done"]
               /\ call' = [call EXCEPT ![c] =
                             [updateReturn(cur, "put") EXCEPT !.entry = Get(path, cur.cacheID)]]
               /\ UNCHANGED <<store, crashed>>
          ELSE /\ pc' = [pc EXCEPT ![c] = "done"]
               /\ store' = Put(path, cur.cacheID, enc.bytes)
               /\ call' = [call EXCEPT ![c] =
                             [updateReturn(cur, "nil") EXCEPT
                                !.puts = @ + 1, !.entry = store'[path][cur.cacheID]]]
               /\ UNCHANGED crashed
  /\ tx' = [tx EXCEPT !.w = release(c)]
  /\ UNCHANGED <<buckets, apiDown, prev, before, ncalls, next, probe, boot, budget>>

\* One step of caller c.
Step(c) ==
  \/ RecitationsCall(c)
  \/ TranslationsCall(c)
  \/ LanguagesCall(c)
  \/ TafsiraatCall(c)
  \/ ChaptersCall(c)
  \/ ChapterCall(c)
  \/ ChapterInfoCall(c)
  \/ VersesCall(c)
  \/ VerseCall(c)
  \/ JuzzahCall(c)
  \/ VerseTafsirCall(c)
  \/ SearchCall(c)
  \/ Fetch(c)
  \/ UpdateBegin(c)
  \/ Update(c)

\* ------------------------------------------------------------ other users of the handle

\* The *bbolt.DB given to BoltCache stays with its owner, who can write to
\* it: tx.DeleteBucket / Bucket.DeleteBucket removes a bucket with all it
\* holds, nested buckets included.
ExternalDeleteBucket ==
  \E path \in buckets :
    /\ ~crashed
    /\ tx.w = {}
    /\ next < MaxExternal
    /\ ncalls + next < budget
    /\ next' = next + 1
    /\ LET gone == {p \in buckets : Len(p) >= Len(path) /\ SubSeq(p, 1, Len(path)) = path}
       IN /\ buckets' = buckets \ gone
          /\ store' = [p \in AllPaths |-> IF p \in gone THEN EmptyBucket ELSE store[p]]
    /\ UNCHANGED <<apiDown, pc, call, prev, before, ncalls, crashed, probe, boot, tx, budget>>

\* Bytes that are no gob stream of any result type.
Corrupt == <<255>>
\* The values an entry can hold that decode into no result type: those
\* bytes, and no bytes at all.
CorruptValues == {Corrupt, <<>>}

\* An entry, under a key some call derives, whose bytes are not what this
\* build's valueEncoder writes.
ExternalPut ==
  \E op \in CacheableOps :
    \E a \in ArgsOf(op), v \in CorruptValues :
      /\ ~crashed
      /\ tx.w = {}
      /\ bucketOf(op) \in buckets
      /\ next < MaxExternal
      /\ ncalls + next < budget
      /\ next' = next + 1
      /\ store' = Put(bucketOf(op), cacheIDOf(op, a), v)
      /\ UNCHANGED <<buckets, apiDown, pc, call, prev, before, ncalls, crashed, probe, boot, tx, budget>>

\* ------------------------------------------------------------ BoltCache

MaxBoots == 2

\* The stores BoltCache is given: new, partly set up, set up already.
BootTrees ==
  {{},
   {<<bucketChapters>>},
   {<<bucketChapters>>, <<bucketChapters, bucketChapter>>, <<bucketJuzzah>>},
   AllPaths}
PlainPaths == {<<bucketChapters, bucketChapterInfo>>}

InitBoot ==
  /\ buckets \in BootTrees
  /\ store = [p \in AllPaths |-> EmptyBucket]
  /\ apiDown = FALSE
  /\ pc = [c \in Callers |-> "idle"]
  /\ call = [c \in Callers |-> NoCall]
  /\ prev = [c \in Callers |-> NoCall]
  /\ before = [c \in Callers |-> store]
  /\ ncalls = 0
  /\ next = 0
  /\ crashed = FALSE
  /\ probe = NoProbe
  /\ tx = NoTx
  /\ budget = MaxCalls
  /\ \E pl \in SUBSET PlainPaths :
       /\ \A q \in pl : q \notin buckets /\ <<q[1]>> \in buckets
       /\ boot = [NoBoot EXCEPT !.plain = pl]

\* (mutant of created: the nested buckets left out)
createdTopOnly(b) == {<<b>>}

\* The buckets one transaction of the loop leaves in existence:
\* tx.CreateBucketIfNotExists(bucket) and, on what it returns,
\* CreateBucketIfNotExists for each nested bucket.
created(b) == {<<b>>} \cup {<<b, n>> : n \in nestedBuckets(b)}

\* (mutant of createErr: a bucket that exists is an error, as CreateBucket has it)
createErrIfExists(b) ==
  \/ <<b>> \in buckets
  \/ \E n \in nestedBuckets(b) : <<b, n>> \in boot.plain

\* CreateBucketIfNotExists returns the bucket that exists; it fails where
\* the name is the key of a plain value (ErrIncompatibleValue).
createErr(b) == \E n \in nestedBuckets(b) : <<b, n>> \in boot.plain

\* (mutant of bootFailed: the error of db.Update not looked at)
bootFailedGoesOn(b) ==
  [boot EXCEPT !.step = IF boot.todo = {b} THEN "ok" ELSE "running",
               !.todo = @ \ {b},
               !.runs = IF boot.todo = {b} THEN @ + 1 ELSE @,
               !.ret = IF boot.todo = {b} THEN "decorator" ELSE @,
               !.decorators = IF boot.todo = {b} THEN @ + 1 ELSE @]

\* `if err != nil { return nil, err }` after db.Update in the loop.
bootFailed(b) ==
  [boot EXCEPT !.step = "failed", !.todo = {}, !.runs = @ + 1,
               !.ret = "nil", !.err = "create"]

\* BoltCache is called: the map of buckets is built.
BoltCacheBegin ==
  /\ ~crashed
  /\ boot.step # "running"
  /\ boot.runs < MaxBoots
  /\ boot' = [boot EXCEPT !.step = "running", !.todo = TopBuckets,
                          !.ret = "none", !.err = "nil"]
  /\ UNCHANGED <<buckets, store, apiDown, pc, call, prev, before, ncalls, next, crashed, probe, tx, budget>>

\* (mutant of BoltCacheBucket: the bucket in one transaction, its nested
\* buckets in a later one)
BoltCacheBucketThenNested ==
  \E b \in boot.todo :
    /\ ~crashed
    /\ boot.step = "running"
    /\ tx.w = {}
    /\ tx' = [tx EXCEPT !.w = release(0)]
    /\ IF createErr(b)
       THEN /\ boot' = bootFailed(b)
            /\ UNCHANGED buckets
       ELSE IF <<b>> \notin buckets
       THEN /\ boot' = boot
            /\ buckets' = buckets \cup {<<b>>}
       ELSE /\ boot' = [boot EXCEPT !.todo = @ \ {b}]
            /\ buckets' = buckets \cup created(b)
    /\ UNCHANGED <<store, apiDown, pc, call, prev, before, ncalls, next, crashed, probe, budget>>

\* One turn of `for bucket, nestedBuckets := range buckets`, the map in no
\* fixed order: one db.Update, which commits all its buckets or, its
\* function returning an error, none of them.
BoltCacheBucket ==
  \E b \in boot.todo :
    /\ ~crashed
    /\ boot.step = "running"
    /\ tx.w = {}
    /\ tx' = [tx EXCEPT !.w = release(0)]
    /\ IF createErr(b)
       THEN /\ boot' = bootFailed(b)
            /\ UNCHANGED buckets
       ELSE /\ boot' = [boot EXCEPT !.todo = @ \ {b}]
            /\ buckets' = buckets \cup created(b)
    /\ UNCHANGED <<store, apiDown, pc, call, prev, before, ncalls, next, crashed, probe, budget>>

\* One turn of the loop in which db.Update itself fails (the db closed, the
\* commit refused by the disk): the transaction is rolled back, none of
\* its buckets is left, and BoltCache returns the error.
BoltCacheRefused ==
  \E b \in boot.todo :
    /\ ~crashed
    /\ boot.step = "running"
    /\ tx.w = {}
    /\ tx' = [tx EXCEPT !.w = release(0)]
    /\ boot' = [bootFailed(b) EXCEPT !.err = "io"]
    /\ UNCHANGED <<buckets, store, apiDown, pc, call, prev, before, ncalls, next, crashed, probe, budget>>

\* `return &boltCacheMiddleware{db: db, next: client}, nil` after the loop.
BoltCacheReturn ==
  /\ ~crashed
  /\ boot.step = "running"
  /\ boot.todo = {}
  /\ boot' = [boot EXCEPT !.step = "ok", !.runs = @ + 1, !.ret = "decorator",
                          !.decorators = @ + 1]
  /\ UNCHANGED <<buckets, store, apiDown, pc, call, prev, before, ncalls, next, crashed, probe, tx, budget>>

\* ------------------------------------------------------------ key derivation alone

KeyLists == {<<>>, <<1>>, <<1, 1>>, <<1, 2>>, <<2, 1>>, <<1, 2, 1>>, <<2, 1, 1>>}
KeyArgs ==
  {Args(<<>>, i, 0, VersesOpt(<<>>, r, <<>>, 0, 0, 0, m, t), <<>>) :
     i \in {1, 2}, r \in {0, 1}, m \in IntLists, t \in KeyLists}

InitKey ==
  /\ buckets = AllPaths
  /\ store = [p \in AllPaths |-> EmptyBucket]
  /\ apiDown = FALSE
  /\ pc = [c \in Callers |-> "idle"]
  /\ call = [c \in Callers |-> NoCall]
  /\ prev = [c \in Callers |-> NoCall]
  /\ before = [c \in Callers |-> store]
  /\ ncalls = 0
  /\ next = 0
  /\ crashed = FALSE
  /\ boot = Booted
  /\ tx = NoTx
  /\ budget = MaxCalls
  /\ \E x \in KeyArgs, y \in KeyArgs :
       probe = [NoProbe EXCEPT !.step = "start", !.a = x, !.a1 = x, !.b = y]

\* opt.key(chapterID) for a and for b; a's slices are sorted by it.
KeyFirst ==
  /\ probe.step = "start"
  /\ probe' = [probe EXCEPT !.step = "first",
                            !.ka = versesKey(probe.a.vopt, probe.a.id),
                            !.a1 = argsAfterKey("Verses", probe.a),
                            !.kb = versesKey(probe.b.vopt, probe.b.id)]
  /\ UNCHANGED <<buckets, store, apiDown, pc, call, prev, before, ncalls, next, crashed, boot, tx, budget>>

\* opt.key(chapterID) once more, for the arguments a now holds.
KeyAgain ==
  /\ probe.step = "first"
  /\ probe' = [probe EXCEPT !.step = "again",
                            !.ka2 = versesKey(probe.a1.vopt, probe.a1.id)]
  /\ UNCHANGED <<buckets, store, apiDown, pc, call, prev, before, ncalls, next, crashed, boot, tx, budget>>

\* ------------------------------------------------------------ joined keys alone

CompositeOps == {"Chapter", "ChapterInfo", "Verse", "VerseTafsir"}
JoinLangs == {<<>>, <<0>>, <<1>>, <<2>>, <<11>>, <<-1>>}
JoinTafsirs == {<<>>, <<1>>, <<12>>}
JoinIDs == {-1, 1, 2, 12, 21}
JoinArgs(op) ==
  CASE op \in {"Chapter", "ChapterInfo"} ->
         {Args(ro, i, 0, ZeroVersesOpt, <<>>) : ro \in JoinLangs, i \in JoinIDs}
    [] op = "Verse" ->
         {Args(<<>>, i, v, ZeroVersesOpt, <<>>) : i \in JoinIDs, v \in JoinIDs}
    [] OTHER ->
         {Args(ro, i, v, ZeroVersesOpt, <<>>) : ro \in JoinTafsirs, i \in JoinIDs, v \in JoinIDs}

InitJoin ==
  /\ buckets = AllPaths
  /\ store = [p \in AllPaths |-> EmptyBucket]
  /\ apiDown = FALSE
  /\ pc = [c \in Callers |-> "idle"]
  /\ call = [c \in Callers |-> NoCall]
  /\ prev = [c \in Callers |-> NoCall]
  /\ before = [c \in Callers |-> store]
  /\ ncalls = 0
  /\ next = 0
  /\ crashed = FALSE
  /\ boot = Booted
  /\ tx = NoTx
  /\ budget = MaxCalls
  /\ \E o \in CompositeOps :
       \E x \in JoinArgs(o), y \in JoinArgs(o) :
         probe = [NoProbe EXCEPT !.step = "start", !.op = o, !.a = x, !.a1 = x, !.b = y]

\* cacheID := []byte(join(...)) for two calls of one method.
KeyJoined ==
  /\ probe.step = "start"
  /\ probe.op \in CompositeOps
  /\ probe' = [probe EXCEPT !.step = "joined",
                            !.ka = cacheIDOf(probe.op, probe.a),
                            !.kb = cacheIDOf(probe.op, probe.b)]
  /\ UNCHANGED <<buckets, store, apiDown, pc, call, prev, before, ncalls, next, crashed, boot, tx, budget>>

\* ------------------------------------------------------------ keys and requests

\* Calls of Chapters, of Chapter and of Verses whose options differ in
\* values the request leaves out: ids that are not positive, the offset.
ReqOps == {"Chapters", "Chapter", "Verses"}
ReqLangs == {<<>>, <<0>>, <<-1>>, <<-2>>, <<1>>}
ReqScalars == {-1, 0, 1}
ReqArgs(op) ==
  CASE op = "Chapters" -> {Args(ro, 0, 0, ZeroVersesOpt, <<>>) : ro \in ReqLangs}
    [] op = "Chapter" -> {Args(ro, i, 0, ZeroVersesOpt, <<>>) : ro \in ReqLangs, i \in {1, 2}}
    [] OTHER ->
         {a \in {Args(<<>>, 2, 0, VersesOpt(<<>>, r, <<>>, p, l, o, m, <<>>), <<>>) :
                   r \in ReqScalars, p \in ReqScalars, l \in ReqScalars,
                   o \in {0, 1}, m \in IntLists} :
            ~keyFails("Verses", a)}

InitReq ==
  /\ buckets = AllPaths
  /\ store = [p \in AllPaths |-> EmptyBucket]
  /\ apiDown = FALSE
  /\ pc = [c \in Callers |-> "idle"]
  /\ call = [c \in Callers |-> NoCall]
  /\ prev = [c \in Callers |-> NoCall]
  /\ before = [c \in Callers |-> store]
  /\ ncalls = 0
  /\ next = 0
  /\ crashed = FALSE
  /\ boot = Booted
  /\ tx = NoTx
  /\ budget = MaxCalls
  /\ \E o \in ReqOps :
       \E x \in ReqArgs(o), y \in ReqArgs(o) :
         probe = [NoProbe EXCEPT !.step = "start", !.op = o, !.a = x, !.a1 = x, !.b = y]

\* The cacheID of two calls of one method, and what the caller's arguments
\* hold once the first is derived.
KeyRequest ==
  /\ probe.step = "start"
  /\ probe.op \in ReqOps
  /\ probe' = [probe EXCEPT !.step = "keyed",
                            !.ka = cacheIDOf(probe.op, probe.a),
                            !.a1 = argsAfterKey(probe.op, probe.a),
                            !.kb = cacheIDOf(probe.op, probe.b)]
  /\ UNCHANGED <<buckets, store, apiDown, pc, call, prev, before, ncalls, next, crashed, boot, tx, budget>>

\* ------------------------------------------------------------ specifications

\* One caller, one call after the other; the middleware alone writes.
Next == Step(1)
Spec == Init /\ [][Next]_vars

\* One caller, and the owner of the handle writing to the store.
NextExt == Step(1) \/ ExternalDeleteBucket \/ ExternalPut
SpecExt == Init /\ [][NextExt]_vars

\* Several callers, their calls interleaved at the transactions: of Juzzah
\* (a top-level bucket, a fixed key), Chapter (a nested bucket, a joined
\* key) and Verses (the gob key).
NextConc ==
  \E c \in Callers :
    \/ JuzzahCall(c)
    \/ ChapterCall(c)
    \/ VersesCall(c)
    \/ Fetch(c)
    \/ UpdateBegin(c)
    \/ Update(c)
SpecConc == Init /\ [][NextConc]_vars

\* Calls enough for two callers to race on a key and for a call to follow.
MaxRaceCalls == 3

\* As Init, the run longer by a call.
InitRace ==
  /\ buckets = AllPaths
  /\ store = [p \in AllPaths |-> EmptyBucket]
  /\ apiDown \in BOOLEAN
  /\ pc = [c \in Callers |-> "idle"]
  /\ call = [c \in Callers |-> NoCall]
  /\ prev = [c \in Callers |-> NoCall]
  /\ before = [c \in Callers |-> store]
  /\ ncalls = 0
  /\ next = 0
  /\ crashed = FALSE
  /\ probe = NoProbe
  /\ boot = Booted
  /\ tx = NoTx
  /\ budget = MaxRaceCalls

\* Several callers racing on the keys of Chapters.
NextRace ==
  \E c \in Callers :
    \/ ChaptersCall(c)
    \/ Fetch(c)
    \/ UpdateBegin(c)
    \/ Update(c)
SpecRace == InitRace /\ [][NextRace]_vars

\* Several callers of Juzzah, each of them run on: the wrapped API answers
\* every invocation, the store grants the read-write transaction to each
\* caller that keeps asking for it, and the function given to db.Update
\* runs to its end.
NextLive ==
  \E c \in Callers :
    \/ JuzzahCall(c)
    \/ Fetch(c)
    \/ UpdateBegin(c)
    \/ Update(c)
SpecLive ==
  /\ Init /\ [][NextLive]_vars
  /\ \A c \in Callers :
       WF_vars(Fetch(c)) /\ SF_vars(UpdateBegin(c)) /\ WF_vars(Update(c))

\* versesReqOpt.key applied to pairs of argument lists.
NextKey == KeyFirst \/ KeyAgain
SpecKey == InitKey /\ [][NextKey]_vars

\* The keys of pairs of calls beside the requests they stand for.
NextReq == KeyRequest
SpecReq == InitReq /\ [][NextReq]_vars

\* The joined keys of pairs of calls.
NextJoin == KeyJoined
SpecJoin == InitJoin /\ [][NextJoin]_vars

\* BoltCache run, and run again, against stores in several conditions, and
\* the decorators it returns put to use.
NextBoot ==
  \/ BoltCacheBegin
  \/ BoltCacheBucket
  \/ BoltCacheReturn
  \/ JuzzahCall(1)
  \/ VerseTafsirCall(1)
  \/ Fetch(1)
  \/ UpdateBegin(1)
  \/ Update(1)
SpecBoot == InitBoot /\ [][NextBoot]_vars

\* A db that holds no bucket, handed to BoltCache for the first time.
InitFresh ==
  /\ buckets = {}
  /\ store = [p \in AllPaths |-> EmptyBucket]
  /\ apiDown = FALSE
  /\ pc = [c \in Callers |-> "idle"]
  /\ call = [c \in Callers |-> NoCall]
  /\ prev = [c \in Callers |-> NoCall]
  /\ before = [c \in Callers |-> store]
  /\ ncalls = 0
  /\ next = 0
  /\ crashed = FALSE
  /\ probe = NoProbe
  /\ tx = NoTx
  /\ budget = MaxCalls
  /\ boot = NoBoot

\* BoltCache run, and run again, on that db, which may refuse any of the
\* transactions.
NextFresh ==
  \/ BoltCacheBegin
  \/ BoltCacheBucket
  \/ BoltCacheRefused
  \/ BoltCacheReturn
SpecFresh == InitFresh /\ [][NextFresh]_vars

\* ------------------------------------------------------------ properties

Returned(c) == pc[c] = "done"
Cacheable(c) == call[c].op \in CacheableOps

\* The same operation with equal arguments, as the caller passed them.
Repeats(c) == call[c].op = prev[c].op /\ call[c].passed = prev[c].passed

\* What a value is once it has been through the store.
roundTrip(op, v) == valueDecode(op, valueEncoder(op, v).bytes).v

Count(s, x) == Cardinality({i \in 1..Len(s) : s[i] = x})
Elems(s) == {s[i] : i \in 1..Len(s)}
\* s and t hold the same ids, each as often: one is a permutation of the other.
SameBag(s, t) ==
  /\ Len(s) = Len(t)
  /\ \A x \in Elems(s) \cup Elems(t) : Count(s, x) = Count(t, x)
SameScalars(x, y) ==
  /\ x.Language = y.Language
  /\ x.Recitation = y.Recitation
  /\ x.TextType = y.TextType
  /\ x.Offset = y.Offset
  /\ x.Limit = y.Limit
  /\ x.Page = y.Page
\* Two Verses argument lists that differ at most in the order of the ids.
Permuted(a, b) ==
  /\ a.id = b.id
  /\ SameScalars(a.vopt, b.vopt)
  /\ SameBag(a.vopt.Media, b.vopt.Media)
  /\ SameBag(a.vopt.Translations, b.vopt.Translations)

\* C1 as stated: whenever a call of a cacheable operation returned a value
\* without error, the next call with equal arguments returns that value with
\* a nil error and does not invoke the wrapped API.
C1_SecondCallServedFromCache ==
  \A c \in Callers :
    (Returned(c) /\ Cacheable(c) /\ Repeats(c) /\ prev[c].err = "nil")
      => (call[c].err = "nil" /\ call[c].val = prev[c].val /\ call[c].invoked = 0)

\* C1 amended: when the first call left its value in the store (it wrote it,
\* or it was itself served from the store), the next call with equal
\* arguments is a hit: it does not invoke the wrapped API and returns, with
\* a nil error, the value as gob decodes it from the entry (an empty list
\* comes back as a nil list).
C1_HitAfterStoredMiss ==
  \A c \in Callers :
    (Returned(c) /\ Cacheable(c) /\ Repeats(c) /\ prev[c].err = "nil"
       /\ (prev[c].puts = 1 \/ prev[c].hit))
      => /\ call[c].hit
         /\ call[c].invoked = 0
         /\ call[c].err = "nil"
         /\ call[c].val = roundTrip(call[c].op, prev[c].val)

C1_Witness ==
  \E c \in Callers :
    /\ Returned(c) /\ Cacheable(c) /\ Repeats(c)
    /\ prev[c].invoked = 1 /\ prev[c].puts = 1
    /\ call[c].hit /\ call[c].invoked = 0
    /\ call[c].val = prev[c].val

\* C2: when the wrapped API returns an error on a miss, the call returns that
\* very error with the zero value, opens no write transaction and leaves the
\* store as it was when the call began.
C2_UpstreamErrorPropagated ==
  \A c \in Callers :
    (Returned(c) /\ Cacheable(c) /\ call[c].apiErr # "nil")
      => /\ call[c].err = call[c].apiErr
         /\ call[c].val = ZeroVal(call[c].op)
         /\ call[c].txs = 0
         /\ call[c].puts = 0
         /\ store = before[c]

C2_Witness ==
  \E c \in Callers :
    /\ Returned(c) /\ Cacheable(c)
    /\ call[c].invoked = 1 /\ call[c].apiErr = "e2" /\ call[c].err = "e2"

\* C3 as stated: a call returns an error exactly when a direct call of the
\* wrapped API at that moment would return one.
C3_ErrorIffUpstreamDown ==
  \A c \in Callers :
    Returned(c) => (call[c].err # "nil" <=> call[c].downAtCall)

\* C3 amended: a call returns an error exactly when its lookup missed (or it
\* is Search) and the wrapped API, invoked by it, returned an error, and the
\* error is that one; a call served from the store returns nil whatever the
\* wrapped API would do.
C3_ErrorIffMissAndUpstreamError ==
  \A c \in Callers :
    Returned(c) =>
      /\ call[c].err # "nil" <=> (~call[c].hit /\ call[c].downAtCall)
      /\ call[c].err = call[c].apiErr
      /\ call[c].hit => call[c].invoked = 0

C3_Witness ==
  \E c \in Callers :
    /\ Returned(c) /\ call[c].hit /\ call[c].downAtCall /\ call[c].err = "nil"

\* C4: when a key was derived, the wrapped API succeeded and the write failed (the encoding,
\* or the transaction and its Put), the call still returns the fetched value
\* with a nil error, as when the write succeeds; the write is tried once.
C4_WriteFailureSwallowed ==
  \A c \in Callers :
    (Returned(c) /\ Cacheable(c) /\ ~call[c].keyErr
       /\ call[c].invoked = 1 /\ call[c].apiErr = "nil")
      => /\ call[c].val = call[c].clientOut
         /\ call[c].err = "nil"
         /\ call[c].txs = 1
         /\ call[c].writeErr # "nil" => call[c].puts = 0

C4_Witness ==
  \E c \in Callers :
    /\ Returned(c) /\ call[c].writeErr = "encode"
    /\ call[c].err = "nil" /\ call[c].val = call[c].clientOut /\ call[c].puts = 0

\* C5: a Search call invokes the wrapped Search once, with its query, and
\* returns its result and error unchanged; it never reads the store and
\* never writes to it, however often the query is repeated.
C5_SearchBypassesCache ==
  \A c \in Callers :
    call[c].op = "Search" =>
      /\ call[c].reads = 0
      /\ call[c].txs = 0
      /\ pc[c] \in {"fetch", "done"}
      /\ Returned(c) =>
           /\ call[c].invoked = 1
           /\ call[c].upArgs = call[c].passed
           /\ call[c].val = call[c].clientOut
           /\ call[c].err = call[c].apiErr
           /\ store = before[c]

C5_Witness ==
  \E c \in Callers :
    /\ Returned(c) /\ call[c].op = "Search" /\ Repeats(c)
    /\ prev[c].err = "nil" /\ prev[c].invoked = 1 /\ call[c].invoked = 1

\* C6 as stated: after a Verses call that returned a value, a Verses call
\* whose translation and media ids are a permutation of the first call's is
\* a hit and returns the first call's value; the wrapped API was invoked
\* once over the two calls.
C6_PermutedVersesHit ==
  \A c \in Callers :
    (Returned(c) /\ call[c].op = "Verses" /\ prev[c].op = "Verses"
       /\ prev[c].err = "nil" /\ Permuted(prev[c].passed, call[c].passed))
      => /\ call[c].hit
         /\ call[c].val = prev[c].val
         /\ prev[c].invoked + call[c].invoked = 1

\* C6 amended: after a Verses call that fetched a value and stored it, a
\* Verses call whose translation and media ids are a permutation of the
\* first call's is a hit and returns that value as gob decodes it; the
\* wrapped API was invoked once over the two calls.
C6_PermutedVersesHitAfterStore ==
  \A c \in Callers :
    (Returned(c) /\ call[c].op = "Verses" /\ prev[c].op = "Verses"
       /\ prev[c].err = "nil" /\ prev[c].puts = 1
       /\ Permuted(prev[c].passed, call[c].passed))
      => /\ call[c].hit
         /\ call[c].val = roundTrip("Verses", prev[c].val)
         /\ prev[c].invoked + call[c].invoked = 1

C6_Witness ==
  \E c \in Callers :
    /\ Returned(c) /\ call[c].op = "Verses" /\ prev[c].op = "Verses"
    /\ prev[c].puts = 1 /\ call[c].hit
    /\ prev[c].passed.vopt.Translations = <<2, 1>>
    /\ call[c].passed.vopt.Translations = <<1, 2>>

\* C7 as stated: the Verses key is deterministic, and two argument lists
\* with the same chapter id, the same scalar options and the same sets of
\* media and translation ids have the same key.
C7_SameSetsSameKey ==
  probe.step = "again" =>
    /\ probe.ka2 = probe.ka
    /\ (/\ probe.a.id = probe.b.id
        /\ SameScalars(probe.a.vopt, probe.b.vopt)
        /\ Elems(probe.a.vopt.Media) = Elems(probe.b.vopt.Media)
        /\ Elems(probe.a.vopt.Translations) = Elems(probe.b.vopt.Translations))
       => probe.ka = probe.kb

\* C7 amended: the Verses key is deterministic (deriving it again from the
\* arguments the first derivation left behind gives the same bytes), and two
\* argument lists with the same chapter id, the same scalar options and the
\* same media and translation ids up to order, each id as often in one as
\* in the other, have the same key.
C7_PermutationsSameKey ==
  probe.step = "again" =>
    /\ probe.ka2 = probe.ka
    /\ Permuted(probe.a, probe.b) => probe.ka = probe.kb

C7_Witness ==
  /\ probe.step = "again"
  /\ Permuted(probe.a, probe.b)
  /\ probe.a.vopt.Translations = <<2, 1, 1>>
  /\ probe.b.vopt.Translations = <<1, 2, 1>>
  /\ probe.ka = probe.kb

\* The lookup of c found nothing under the key, or bytes that are no encoding.
FoundNothingUsable(c) ==
  /\ Cacheable(c)
  /\ call[c].reads = 1
  /\ ~call[c].noBucket
  /\ call[c].found \in {<<>>, Corrupt}

\* C8 as stated: a lookup that finds no entry, or an entry that does not
\* decode, is a miss without error: the wrapped API is invoked once and, when
\* it succeeds, its value is written under the key and returned.
C8_MissFetchesAndWrites ==
  \A c \in Callers :
    FoundNothingUsable(c) =>
      /\ ~call[c].hit
      /\ Returned(c) =>
           /\ call[c].invoked = 1
           /\ call[c].err = call[c].apiErr
           /\ call[c].apiErr = "nil" =>
                /\ call[c].val = call[c].clientOut
                /\ valueEncoder(call[c].op, call[c].clientOut).ok
                /\ call[c].entry = valueEncoder(call[c].op, call[c].clientOut).bytes

\* C8 amended: a lookup that finds no entry, or an entry that does not
\* decode, is a miss without error: the wrapped API is invoked once and, when
\* it succeeds, its value is returned with a nil error after one write
\* attempt; the entry under the key is the value's encoding when that attempt
\* succeeded, and nothing is put when the encoding or the write failed. The
\* call crashes instead of returning only when its bucket was deleted
\* between the lookup and the write.
C8_MissFetchesAndTriesWrite ==
  \A c \in Callers :
    FoundNothingUsable(c) =>
      /\ ~call[c].hit
      /\ Returned(c) =>
           /\ call[c].invoked = 1
           /\ call[c].err = call[c].apiErr
           /\ call[c].apiErr = "nil" =>
                /\ call[c].val = call[c].clientOut
                /\ call[c].txs = 1
                /\ call[c].writeErr = "nil" =>
                     /\ call[c].puts = 1
                     /\ call[c].entry = valueEncoder(call[c].op, call[c].clientOut).bytes
                /\ call[c].writeErr # "nil" => call[c].puts = 0
      /\ pc[c] = "panic" => bucketOf(call[c].op) \notin buckets

C8_Witness ==
  \E c \in Callers :
    /\ Returned(c) /\ FoundNothingUsable(c)
    /\ call[c].found = Corrupt
    /\ call[c].invoked = 1 /\ call[c].puts = 1
    /\ call[c].entry = valueEncoder(call[c].op, call[c].clientOut).bytes
    /\ call[c].entry # Corrupt

\* C9 as stated: a call whose bucket is missing at the lookup does not
\* crash: it is a miss, the wrapped API is invoked and its result returned.
C9_MissingBucketIsMiss ==
  \A c \in Callers :
    (Cacheable(c) /\ call[c].noBucket) =>
      /\ pc[c] # "panic"
      /\ Returned(c) =>
           /\ call[c].invoked = 1
           /\ call[c].err = call[c].apiErr
           /\ call[c].apiErr = "nil" => call[c].val = call[c].clientOut

\* Every caller is at its first call, so that the calls on record are all
\* the calls there were.
FirstCalls == \A c \in Callers : prev[c] = NoCall
\* The calls that put a value under key of op.
Writers(op, key) ==
  {r \in {call[c] : c \in Callers} : r.op = op /\ r.cacheID = key /\ r.puts = 1}

\* C10: of callers that miss on one key at the same time, each invokes the
\* wrapped API itself, once, and each that succeeds writes in a transaction
\* of its own; once all have returned, the entry under the key is the
\* encoding of the value one of the writers fetched, whole and present.
C10_ConcurrentMissesLastWriterWins ==
  /\ \A c \in Callers :
       (Returned(c) /\ Cacheable(c) /\ ~call[c].hit) => call[c].invoked = 1
  /\ \A c \in Callers :
       (Returned(c) /\ Cacheable(c) /\ ~call[c].keyErr
          /\ call[c].invoked = 1 /\ call[c].apiErr = "nil")
         => call[c].txs = 1
  /\ (FirstCalls /\ \A c \in Callers : pc[c] \in {"idle", "done"}) =>
       \A c \in Callers :
         (Cacheable(c) /\ call[c].puts = 1) =>
           Get(bucketOf(call[c].op), call[c].cacheID)
             \in {valueEncoder(r.op, r.clientOut).bytes :
                    r \in Writers(call[c].op, call[c].cacheID)}

C10_Witness ==
  \E c \in Callers, d \in Callers :
    /\ c # d
    /\ FirstCalls
    /\ Returned(c) /\ Returned(d)
    /\ call[c].op = call[d].op /\ call[c].cacheID = call[d].cacheID
    /\ ~call[c].hit /\ ~call[d].hit
    /\ call[c].puts = 1 /\ call[d].puts = 1
    /\ call[c].clientOut # call[d].clientOut
    /\ Get(bucketOf(call[c].op), call[c].cacheID)
         = valueEncoder(call[c].op, call[c].clientOut).bytes

\* C11: a Verses call whose key derivation fails reads nothing from the store
\* and writes nothing to it, invokes the wrapped API once and returns its
\* value and its error as they are; the error of the key derivation is not
\* returned.
C11_KeyFailurePassesThrough ==
  \A c \in Callers :
    (call[c].op = "Verses" /\ versesKeyErr(call[c].passed.vopt, call[c].passed.id)) =>
      /\ call[c].reads = 0
      /\ call[c].txs = 0
      /\ call[c].puts = 0
      /\ pc[c] \in {"fetch", "done"}
      /\ Returned(c) =>
           /\ call[c].invoked = 1
           /\ call[c].val = call[c].clientOut
           /\ call[c].err = call[c].apiErr
           /\ store = before[c]

C11_Witness ==
  \E c \in Callers :
    /\ Returned(c) /\ call[c].op = "Verses" /\ call[c].keyErr
    /\ call[c].invoked = 1 /\ call[c].err = "nil"
    /\ call[c].val = call[c].clientOut /\ call[c].val # NilVal
    /\ prev[c].op = "Verses" /\ prev[c].keyErr /\ prev[c].invoked = 1

\* The namespaces a decorator needs, by name.
RequiredNamespaces ==
  {<<"chapters">>, <<"juzzah">>, <<"languages">>, <<"recitations">>,
   <<"tafsiraat">>, <<"translations">>, <<"verses">>,
   <<"chapters", "chapter">>, <<"chapters", "chapterinfo">>,
   <<"verses", "verse">>, <<"verses", "verse_tafsir">>}

\* C12: once BoltCache has returned a decorator without error, the store
\* holds every required top-level namespace and every required nested one.
C12_BootstrapCreatesNamespaces ==
  boot.ret = "decorator" =>
    /\ boot.err = "nil"
    /\ RequiredNamespaces \subseteq buckets

C12_Witness ==
  /\ boot.step = "ok" /\ boot.runs = 1 /\ boot.ret = "decorator"
  /\ RequiredNamespaces \subseteq buckets
  /\ \A c \in Callers : call[c].op = "none"

C14_BootstrapFailureIsFatal ==
  /\ boot.step = "failed" => (boot.ret = "nil" /\ boot.err # "nil")
  /\ (boot.plain # {} /\ boot.step # "running") => boot.ret # "decorator"
  /\ \A c \in Callers :
       call[c].op # "none" =>
         (boot.decorators > 0 /\ RequiredNamespaces \subseteq buckets)

C14_Witness ==
  /\ boot.step = "failed" /\ boot.ret = "nil" /\ boot.err = "create"
  /\ boot.decorators = 0
  /\ <<bucketRecitations>> \in buckets
  /\ <<bucketChapters, bucketChapterInfo>> \notin buckets
  /\ \A c \in Callers : call[c].op = "none"



\* C15: the outcome of looking up an absent key (valueDecode's io.EOF) is the
\* outcome of no lookup of a key that is present with bytes that do not
\* decode: a failed lookup ends in that error exactly when the key is
\* absent.
C15_AbsentDistinctFromCorrupt ==
  \A c \in Callers :
    (Cacheable(c) /\ call[c].reads = 1 /\ ~call[c].noBucket /\ ~call[c].hit)
      => (call[c].decErr = "EOF" <=> ~call[c].present)

\* C16: for the operations that return a list, after a call fetched an empty
\* list and stored it, the next call with equal arguments finds the entry,
\* is a hit, and returns a list of length 0 without invoking the wrapped API;
\* a call that finds no entry under its key is a miss.
C16_EmptyListIsAHit ==
  \A c \in Callers :
    /\ (Returned(c) /\ call[c].op \in ListOps /\ Repeats(c)
          /\ prev[c].invoked = 1 /\ prev[c].err = "nil"
          /\ Len(prev[c].clientOut.elems) = 0 /\ prev[c].puts = 1)
         => /\ call[c].present
            /\ call[c].found # <<>>
            /\ call[c].hit
            /\ call[c].invoked = 0
            /\ call[c].err = "nil"
            /\ Len(call[c].val.elems) = 0
    /\ (call[c].op \in ListOps /\ call[c].reads = 1 /\ ~call[c].noBucket
          /\ ~call[c].present)
         => (~call[c].hit /\ (Returned(c) => call[c].invoked = 1))

C16_Witness ==
  \E c \in Callers :
    /\ Returned(c) /\ call[c].op = "Tafsiraat" /\ Repeats(c)
    /\ prev[c].invoked = 1 /\ prev[c].puts = 1
    /\ ~prev[c].present /\ ~prev[c].hit
    /\ Len(prev[c].clientOut.elems) = 0
    /\ call[c].hit /\ call[c].invoked = 0 /\ Len(call[c].val.elems) = 0

\* C17 as stated: on a miss the wrapped API is invoked with the arguments as
\* the caller passed them, the ids of a Verses call in the caller's order,
\* and the caller's own id slices hold after the call what they held before.
C17_OriginalArgumentsKept ==
  \A c \in Callers :
    (Cacheable(c) /\ call[c].invoked = 1)
      => /\ call[c].upArgs = call[c].passed
         /\ call[c].args = call[c].passed

\* A key cut at its ':' bytes.
RECURSIVE Fields(_)
Fields(key) ==
  IF \A i \in 1..Len(key) : key[i] # 58 THEN <<key>>
  ELSE LET i == CHOOSE k \in 1..Len(key) :
                  key[k] = 58 /\ \A j \in 1..(k - 1) : key[j] # 58
       IN <<SubSeq(key, 1, i - 1)>> \o Fields(SubSeq(key, i + 1, Len(key)))

\* The number a decimal text stands for; -99999 for what is no decimal text.
RECURSIVE Natural(_)
Natural(t) ==
  IF Len(t) = 0 THEN 0 ELSE 10 * Natural(SubSeq(t, 1, Len(t) - 1)) + (t[Len(t)] - 48)
Number(t) ==
  IF Len(t) > 0 /\ t[1] = 45 /\ Len(t) > 1 /\ \A i \in 2..Len(t) : t[i] \in 48..57
    THEN 0 - Natural(Tail(t))
  ELSE IF Len(t) > 0 /\ \A i \in 1..Len(t) : t[i] \in 48..57 THEN Natural(t)
  ELSE -99999

\* The components of a call of a composite-key method, in the order of the
\* key: numbers, but for the tafsir id, which is text ("" when not given).
Components(op, a) ==
  CASE op \in {"Chapter", "ChapterInfo"} -> <<languageID(a.reqOpts), a.id>>
    [] op = "Verse" -> <<a.id, a.verseID>>
    [] OTHER -> <<tafsirOf(a.reqOpts), a.id, a.verseID>>

\* key reads as the components of a, ':' between them.
ReadsAs(op, key, a) ==
  LET f == Fields(key)
      cs == Components(op, a)
  IN /\ Len(f) = Len(cs)
     /\ \A k \in 1..Len(cs) :
          IF op = "VerseTafsir" /\ k = 1 THEN f[k] = cs[k]
          ELSE Number(f[k]) = cs[k]

\* C18: the key of a composite-key method is its components as decimal text
\* in their fixed order with ':' between them, and two calls of one method
\* whose components differ in any place have different keys.
C18_CompositeKeyInjective ==
  probe.step = "joined" =>
    /\ ReadsAs(probe.op, probe.ka, probe.a)
    /\ ReadsAs(probe.op, probe.kb, probe.b)
    /\ Components(probe.op, probe.a) # Components(probe.op, probe.b)
         => probe.ka # probe.kb

C18_Witness ==
  /\ probe.step = "joined"
  /\ probe.op = "Chapter"
  /\ Components("Chapter", probe.a) = <<1, 2>>
  /\ Components("Chapter", probe.b) = <<2, 1>>
  /\ probe.ka = <<49, 58, 50>>
  /\ probe.kb = <<50, 58, 49>>

LanguageOps ==
  {"Recitations", "Translations", "Languages", "Tafsiraat", "Chapters",
   "Chapter", "ChapterInfo"}

\* Two calls of one language-keyed method, the same id, each with no
\* language option or with LanguageID(0), the first of which fetched a
\* value and stored it.
UnsetThenZero(c) ==
  /\ Returned(c)
  /\ call[c].op \in LanguageOps
  /\ prev[c].op = call[c].op
  /\ prev[c].passed.id = call[c].passed.id
  /\ prev[c].passed.reqOpts \in {<<>>, <<0>>}
  /\ call[c].passed.reqOpts \in {<<>>, <<0>>}
  /\ prev[c].err = "nil"
  /\ prev[c].invoked = 1
  /\ prev[c].puts = 1

C20_CallsKeepNamespaces ==
  [][(pc' # pc \/ call' # call) => buckets' = buckets]_vars

C20_Witness ==
  \E c \in Callers :
    /\ Returned(c) /\ Cacheable(c)
    /\ call[c].invoked = 1 /\ call[c].puts = 1
    /\ prev[c].op \in CacheableOps /\ prev[c].apiErr # "nil"
    /\ buckets = RequiredNamespaces

\* ------------------------------------------------------------ C21

\* A step of a decorated call: some caller's position or record changes.
CallStep == pc' # pc \/ call' # call

\* C21: entries are never deleted and never versioned.  Across every step of
\* a decorated call each namespace keeps all the keys it held, and a key
\* whose bytes differ afterwards is the key of the caller that has just
\* written, holding exactly the encoding of the value that caller fetched:
\* nothing of the bytes the key held before is kept.
C21_EntriesOnlyGrowAndAreReplaced ==
  [][CallStep =>
       \A path \in AllPaths :
         /\ DOMAIN store[path] \subseteq DOMAIN store'[path]
         /\ \A k \in DOMAIN store'[path] :
              store'[path][k] # Get(path, k) \/ k \notin DOMAIN store[path] =>
                \E c \in Callers :
                  /\ call'[c].puts = call[c].puts + 1
                  /\ path = bucketOf(call[c].op) /\ k = call[c].cacheID
                  /\ store'[path][k] = valueEncoder(call[c].op, call[c].clientOut).bytes]_vars

\* A caller has written under a key that held other bytes when it looked,
\* and the key now holds the encoding of what the caller fetched.
C21_Witness ==
  \E c \in Callers :
    LET path == bucketOf(call[c].op)
    IN /\ Returned(c) /\ Cacheable(c) /\ call[c].puts = 1
       /\ call[c].present /\ call[c].found # <<>>
       /\ path \in buckets
       /\ store[path][call[c].cacheID] = valueEncoder(call[c].op, call[c].clientOut).bytes
       /\ store[path][call[c].cacheID] # call[c].found

\* ------------------------------------------------------------ C22

\* The transactions holder h has open on the db.
Holds(h) == h \in tx.w \cup tx.r

\* C22: every transaction a decorated call or BoltCache opens is released
\* before it returns, whichever way it leaves: a caller that is not inside
\* its db.Update (it has not called, has returned on a hit, after a fetch
\* error, after an encode failure, after a refused write or after a write,
\* or has panicked) holds no transaction, and neither does BoltCache once
\* its loop is over.
C22_TransactionsReleased ==
  /\ \A c \in Callers : pc[c] # "inTx" => ~Holds(c)
  /\ boot.step # "running" => ~Holds(0)
  /\ tx.r = {}

\* BoltCache has run twice and a call has returned after its db.Update
\* ended on an encode failure.
C22_Witness ==
  /\ boot.runs = 2 /\ boot.step = "ok"
  /\ Returned(1) /\ call[1].reads = 1 /\ call[1].txs = 1
  /\ call[1].writeErr = "encode"
  /\ tx = NoTx

\* ------------------------------------------------------------ C23

\* The lookup of c's call ran and missed.
Missed(c) == call[c].reads = 1 /\ ~call[c].hit

\* The fetch of c's call has answered without an error.
Fetched(c) == call[c].invoked = 1 /\ call[c].apiErr = "nil"

\* What the order of a call comes to apart from the way into the fetch:
\* at most one lookup, one invocation and one db.Update; none of the last
\* two after a hit; db.Update entered and ended only after this call's own
\* fetch has answered without an error, once, before the call returns; a
\* call's step writes the store only as the end of its db.Update.
OrderAfterLookup ==
  /\ [](\A c \in Callers :
          Cacheable(c) =>
            /\ call[c].reads <= 1 /\ call[c].invoked <= 1 /\ call[c].txs <= 1
            /\ call[c].hit => call[c].invoked = 0 /\ call[c].txs = 0 /\ pc[c] = "done"
            /\ pc[c] = "fetch" => call[c].invoked = 0 /\ call[c].txs = 0
            /\ pc[c] \in {"update", "inTx"} => Fetched(c) /\ call[c].txs = 0
            /\ call[c].txs = 1 => Fetched(c)
            /\ call[c].puts <= call[c].txs
            /\ (Returned(c) /\ Fetched(c) /\ ~call[c].keyErr) => call[c].txs = 1)
  /\ [][(CallStep /\ store' # store) =>
          \E c \in Callers :
            /\ pc[c] = "inTx" /\ pc'[c] = "done"
            /\ Fetched(c) /\ call'[c].puts = 1]_vars

\* C23 as stated: lookup, then only on a miss one fetch, then only after a
\* successful fetch one persist attempt, then return; the wrapped API is
\* invoked only by a call whose lookup has run and missed.
C23_LookupFetchPersistReturn ==
  /\ OrderAfterLookup
  /\ [](\A c \in Callers : (Cacheable(c) /\ call[c].invoked = 1) => Missed(c))
  /\ [](\A c \in Callers : (Cacheable(c) /\ pc[c] # "idle") => call[c].reads = 1)

\* C23, amended: the same order, but a Verses call whose key derivation
\* fails makes no lookup: it invokes the wrapped API once and returns with
\* no persist attempt.
C23_LookupFetchPersistReturnUnlessNoKey ==
  /\ OrderAfterLookup
  /\ [](\A c \in Callers :
          (Cacheable(c) /\ pc[c] # "idle") =>
            IF call[c].keyErr
            THEN call[c].reads = 0 /\ call[c].txs = 0 /\ call[c].op = "Verses"
            ELSE /\ call[c].reads = 1
                 /\ call[c].invoked = 1 => Missed(c))

\* One call has gone the whole way (lookup, miss, fetch, write, return) and
\* the one before it was a Verses call fetched without a lookup.
C23_Witness ==
  \E c \in Callers :
    /\ Returned(c) /\ Cacheable(c) /\ Missed(c) /\ Fetched(c)
    /\ call[c].txs = 1 /\ call[c].puts = 1
    /\ prev[c].keyErr /\ prev[c].reads = 0 /\ prev[c].invoked = 1

\* ------------------------------------------------------------ C24

\* C24: a hit has no effect.  A call whose lookup found an entry that
\* decodes has returned what the entry decodes to, with a nil error,
\* without invoking the wrapped API and without a db.Update, and every
\* namespace holds the entries it held when the call began.
C24_HitHasNoEffect ==
  \A c \in Callers :
    (Cacheable(c) /\ call[c].hit) =>
      /\ Returned(c)
      /\ valueDecode(call[c].op, call[c].found).ok
      /\ call[c].val = valueDecode(call[c].op, call[c].found).v
      /\ call[c].err = "nil"
      /\ call[c].invoked = 0 /\ call[c].txs = 0 /\ call[c].puts = 0
      /\ store = before[c] /\ tx = NoTx

\* A call has been served from an entry that an earlier call wrote, the
\* entry being other than the zero value's.
C24_Witness ==
  \E c \in Callers :
    /\ Returned(c) /\ Cacheable(c) /\ call[c].hit
    /\ call[c].val # ZeroVal(call[c].op)
    /\ prev[c].puts = 1 /\ prev[c].cacheID = call[c].cacheID /\ prev[c].op = call[c].op
    /\ store[bucketOf(call[c].op)][call[c].cacheID] = call[c].found

\* ------------------------------------------------------------ C25

\* C25: entries of one method are never served by another.  No two
\* cacheable methods share a namespace; what a lookup finds is what its own
\* method's namespace held under the key; a call's step changes the entries
\* of the namespace of the caller inside its db.Update and of no other; and
\* of two calls on an empty store, the second is served from the store only
\* if the first was a call of the same method that wrote under the same key.
C25_NamespacesIsolateMethods ==
  /\ [](\A x, y \in CacheableOps : bucketOf(x) = bucketOf(y) => x = y)
  /\ [](\A c \in Callers :
          (Cacheable(c) /\ call[c].reads = 1 /\ ~call[c].noBucket) =>
            call[c].found =
              (IF call[c].cacheID \in DOMAIN before[c][bucketOf(call[c].op)]
               THEN before[c][bucketOf(call[c].op)][call[c].cacheID] ELSE <<>>))
  /\ [](\A c \in Callers :
          (Cacheable(c) /\ call[c].hit /\ ncalls = 2) =>
            \E d \in Callers :
              LET w == IF d = c THEN prev[c] ELSE call[d]
              IN /\ w.op = call[c].op /\ w.cacheID = call[c].cacheID
                 /\ w.puts = 1)
  /\ [][CallStep =>
          \A path \in AllPaths :
            store'[path] # store[path] =>
              \E c \in Callers : pc[c] = "inTx" /\ path = bucketOf(call[c].op)]_vars

\* A ChapterInfo call, or a Translations call, has missed under the very
\* key bytes under which the Chapter call, or the Recitations call, before
\* it wrote its entry.
C25_Witness ==
  \E c \in Callers :
    /\ Returned(c) /\ Missed(c) /\ ~call[c].present /\ call[c].puts = 1
    /\ <<prev[c].op, call[c].op>> \in
         {<<"Chapter", "ChapterInfo">>, <<"Recitations", "Translations">>}
    /\ prev[c].puts = 1 /\ prev[c].cacheID = call[c].cacheID
    /\ call[c].cacheID \in DOMAIN store[bucketOf(prev[c].op)]

\* ------------------------------------------------------------ C26

\* The call that stands before c's among the first two calls made on the
\* store: c's own earlier call, or the call of another caller.
Earlier(c) ==
  {w \in {prev[c]} \cup {call[d] : d \in Callers \ {c}} :
     w.op = call[c].op /\ ~w.keyErr /\ w.cacheID = call[c].cacheID}

\* Two calls of one method under one key have each asked the wrapped API,
\* and what the client sends for the one is what it sends for the other.
SameKeySameRequest ==
  \A c \in Callers :
    (Cacheable(c) /\ ~call[c].keyErr /\ call[c].invoked = 1) =>
      \A w \in Earlier(c) :
        w.invoked = 1 => request(w.op, w.upArgs) = request(call[c].op, call[c].upArgs)

EntryBefore(c) ==
  LET f == before[c][bucketOf(call[c].op)]
  IN IF call[c].cacheID \in DOMAIN f THEN f[call[c].cacheID] ELSE <<>>

\* C27: the decorator keeps no state between calls.  Whichever decorator a
\* call goes through, its lookup finds the entry the store held under its
\* key, it is a hit exactly when that entry decodes, and the hit returns
\* what the entry decodes to; so a call that repeats the arguments of a
\* call that wrote its entry is a hit and invokes nothing, through the same
\* decorator or through another one built on the same db.
C27_DecoratorKeepsNoState ==
  \A c \in Callers :
    /\ (Cacheable(c) /\ call[c].reads = 1 /\ ~call[c].noBucket) =>
         /\ call[c].via \in 1..boot.decorators
         /\ call[c].found = EntryBefore(c)
         /\ call[c].hit = valueDecode(call[c].op, EntryBefore(c)).ok
         /\ call[c].hit => call[c].val = valueDecode(call[c].op, EntryBefore(c)).v
    /\ (Cacheable(c) /\ Repeats(c) /\ prev[c].puts = 1 /\ ~call[c].noBucket) =>
         /\ call[c].hit /\ call[c].invoked = 0
         /\ call[c].val = roundTrip(call[c].op, prev[c].clientOut)

\* An entry written through the first decorator has served a call made
\* through the second, built by a later run of BoltCache on the same db.
C27_Witness ==
  \E c \in Callers :
    /\ Returned(c) /\ Cacheable(c) /\ Repeats(c)
    /\ prev[c].via = 1 /\ prev[c].puts = 1
    /\ call[c].via = 2 /\ boot.decorators = 2
    /\ call[c].hit /\ call[c].invoked = 0
    /\ call[c].val # ZeroVal(call[c].op)

\* ------------------------------------------------------------ C28

\* Caller c begins a call in this step.
Begins(c) == pc[c] \in {"idle", "done"} /\ call'[c] # call[c]

\* The callers whose call, on key k of the namespace at path, has missed
\* and has not returned.
InFlight(path, k) ==
  {c \in Callers : /\ pc[c] \in {"fetch", "update", "inTx"}
                   /\ ~call[c].keyErr
                   /\ bucketOf(call[c].op) = path /\ call[c].cacheID = k}

\* C28: the entry of a key is written only by calls whose lookup ran before
\* the first write of the key was committed, that is, by calls whose lookup
\* saw no entry under the key; a key that holds an entry while no such call
\* is in flight keeps its bytes in every step; and a call that begins while
\* its key holds an entry returns at once what the entry decodes to, with
\* no error and without invoking the wrapped API, so that it never becomes
\* a writer.
C28_OnlyEarlyLookupsWrite ==
  /\ [][\A c \in Callers :
          call'[c].puts > call[c].puts =>
            /\ call[c].reads = 1 /\ ~call[c].present
            /\ call[c].cacheID \notin DOMAIN before[c][bucketOf(call[c].op)]]_vars
  /\ [][\A path \in AllPaths : \A k \in DOMAIN store[path] :
          InFlight(path, k) = {} =>
            /\ k \in DOMAIN store'[path] /\ store'[path][k] = store[path][k]
            /\ InFlight(path, k)' = {}]_vars
  /\ [][\A c \in Callers :
          (Begins(c) /\ ~call'[c].keyErr
             /\ call'[c].cacheID \in DOMAIN store[bucketOf(call'[c].op)]) =>
            /\ pc'[c] = "done" /\ call'[c].hit /\ call'[c].err = "nil"
            /\ call'[c].invoked = 0
            /\ call'[c].val =
                 valueDecode(call'[c].op,
                             store[bucketOf(call'[c].op)][call'[c].cacheID]).v]_vars

\* Two callers missed on one key and both wrote, the second over the first
\* with other bytes; after both had returned a third call was served the
\* entry as the second writer left it.
C28_Witness ==
  \E c, d \in Callers :
    LET path == bucketOf(call[c].op)
        k == call[c].cacheID
    IN /\ c # d /\ Returned(c) /\ Returned(d) /\ ncalls = 3
       /\ call[c].hit /\ call[c].invoked = 0
       /\ prev[c].op = call[c].op /\ prev[c].cacheID = k /\ prev[c].puts = 1
       /\ call[d].op = call[c].op /\ call[d].cacheID = k /\ call[d].puts = 1
       /\ ~call[d].present /\ ~prev[c].present
       /\ valueEncoder(prev[c].op, prev[c].clientOut).bytes
            # valueEncoder(call[d].op, call[d].clientOut).bytes
       /\ store[path][k] = valueEncoder(call[d].op, call[d].clientOut).bytes
       /\ call[c].found = store[path][k]

\* ------------------------------------------------------------ C29

\* C29: no call holds a transaction while it invokes the wrapped API.  A
\* caller holds a transaction only inside its db.Update: none while its
\* fetch is due or under way, none between the fetch and db.Update; so the
\* read-write transaction is held only by a caller inside db.Update, and
\* while nobody is there a caller that has fetched can begin its db.Update
\* and an idle caller can begin a call and read, whoever else is fetching.
C29_NoTransactionAcrossFetch ==
  /\ \A c \in Callers : Holds(c) => pc[c] = "inTx"
  /\ \A c \in Callers : pc[c] \in {"fetch", "update"} => ~Holds(c)
  /\ tx.w \subseteq {c \in Callers : pc[c] = "inTx"}
  /\ tx.r = {}
  /\ \A d \in Callers :
       (~crashed /\ \A e \in Callers : pc[e] # "inTx") =>
         /\ pc[d] = "update" => ENABLED UpdateBegin(d)
         /\ (pc[d] \in {"idle", "done"} /\ ncalls + next < budget) =>
              ENABLED JuzzahCall(d)

\* One caller's fetch is still to answer while another caller, which has
\* fetched, is inside its db.Update on the same key.
C29_Witness ==
  \E c, d \in Callers :
    /\ c # d
    /\ pc[c] = "fetch" /\ call[c].reads = 1 /\ call[c].invoked = 0
    /\ pc[d] = "inTx" /\ tx.w = {d} /\ call[d].invoked = 1
    /\ call[c].op = call[d].op /\ call[c].cacheID = call[d].cacheID

\* ------------------------------------------------------------ C30

\* Caller c is inside a call: it has looked, missed, and not returned.
Running(c) == pc[c] \in {"fetch", "update", "inTx"}

\* C30: every decorated call returns.  With the wrapped API answering each
\* invocation and the read-write transaction granted fairly, on a store
\* that holds its namespaces as BoltCache leaves them, a call that is under
\* way has returned some time later, however many callers share the store;
\* whenever a call is under way some caller can take a step (the callers
\* never wait for one another in a circle); and a call makes at most one
\* lookup, one invocation of the wrapped API and one db.Update.
C30_EveryCallReturns ==
  /\ \A c \in Callers : Running(c) ~> Returned(c)
  /\ []((\E c \in Callers : Running(c)) =>
          \E d \in Callers : ENABLED (Fetch(d) \/ UpdateBegin(d) \/ Update(d)))
  /\ [](\A c \in Callers :
          call[c].reads <= 1 /\ call[c].invoked <= 1 /\ call[c].txs <= 1)

\* Every caller has been through a call of its own that missed, fetched
\* and wrote, one of them while the other was waiting for the read-write
\* transaction, and all have returned.
C30_Witness ==
  /\ \A c \in Callers :
       /\ Returned(c) /\ call[c].op = "Juzzah"
       /\ call[c].reads = 1 /\ call[c].invoked = 1 /\ call[c].txs = 1
       /\ ~call[c].present
  /\ tx = NoTx

\* ------------------------------------------------------------ C31

\* C31: a top-level namespace comes with all of its nested namespaces.
\* From a store without namespaces, in every state BoltCache leaves or
\* passes through (a run that failed included), each top-level bucket that
\* exists holds every nested bucket required of it, no nested bucket
\* exists without its top-level bucket, and a run that returned a
\* decorator has left them all.
C31_NamespacesComeWhole ==
  /\ \A b \in TopBuckets :
       <<b>> \in buckets => \A n \in nestedBuckets(b) : <<b, n>> \in buckets
  /\ \A p \in buckets : p \in AllPaths /\ <<p[1]>> \in buckets
  /\ boot.ret = "decorator" => buckets = AllPaths

\* A run has failed having created chapters, whole, and not verses.
C31_Witness ==
  /\ boot.step = "failed" /\ boot.ret = "nil" /\ boot.err = "io"
  /\ {<<bucketChapters>>, <<bucketChapters, bucketChapter>>,
      <<bucketChapters, bucketChapterInfo>>} \subseteq buckets
  /\ <<bucketVerses>> \notin buckets
  /\ <<bucketVerses, bucketVerse>> \notin buckets

\* ------------------------------------------------------------ C32

\* The option values a call's key is derived from: the language id or the
\* versesReqOpt as the options leave it (its lists sorted), and the ids.
KeyedValues(op, a) ==
  IF op = "Verses" THEN <<sortedOpt(a.vopt), a.id>>
  ELSE <<languageID(a.reqOpts), a.id>>

\* The request the wrapped client sends for a call, its key derived.
Sent(op, a) == request(op, argsAfterKey(op, a))

\* C32 as stated: two calls of one method for which the wrapped client
\* sends identical requests derive the same key.
C32_SameRequestSameKey ==
  (probe.step = "keyed" /\ Sent(probe.op, probe.a) = Sent(probe.op, probe.b))
    => probe.ka = probe.kb

\* C32, amended: the key distinguishes every value of the options, sent or
\* not.  Two calls of one method derive the same key exactly when their
\* ids and option values are equal (the lists as sorted), and then the
\* requests are identical; calls whose requests are identical but whose
\* offset, or non-positive recitation, page, limit or language id, differ
\* derive different keys.
C32_SameValuesSameKey ==
  probe.step = "keyed" =>
    /\ probe.ka = probe.kb <=>
         KeyedValues(probe.op, probe.a) = KeyedValues(probe.op, probe.b)
    /\ probe.ka = probe.kb => Sent(probe.op, probe.a) = Sent(probe.op, probe.b)
    /\ probe.a1 = argsAfterKey(probe.op, probe.a)

\* Two Verses calls that differ in the offset alone: one request, two keys.
C32_Witness ==
  /\ probe.step = "keyed" /\ probe.op = "Verses"
  /\ probe.a.vopt.Offset # probe.b.vopt.Offset
  /\ [probe.a.vopt EXCEPT !.Offset = 0] = [probe.b.vopt EXCEPT !.Offset = 0]
  /\ probe.a.vopt.Media = <<2, 1>>
  /\ Sent("Verses", probe.a) = Sent("Verses", probe.b)
  /\ probe.ka # probe.kb

====
